---- MODULE Spec2Model ----
(***************************************************************************)
(* Model of the hermes formula core (src/core): the cell-address model,    *)
(* the lexer, the precedence-climbing parser and the tree-walking          *)
(* evaluator, together with the public entry points of expr/mod.rs.        *)
(*                                                                         *)
(* Text is a sequence of one-character strings.  A Rust Option / Result is *)
(* a record with a `tag` field; a panic (todo!, unreachable!, expect, an   *)
(* arithmetic abort) is the outcome [tag |-> "Panic"].                     *)
(***************************************************************************)
EXTENDS Integers, Sequences, FiniteSets, TLC

VARIABLES
    pc,               \* position of the running operation
    entry,            \* the public entry point that is running
    overflow_checks,  \* build profile: are arithmetic overflow checks compiled in
    cell,             \* address model: the CellRef being formatted
    text,             \* address model: the reference text
    parsed,           \* address model: the outcome of CellRef::from_str
    colIdx,           \* column codec: the index handed to index_to_col
    colLabel,         \* column codec: the outcome of index_to_col
    colText,          \* column codec: the label text handed to col_to_index
    colIndex,         \* column codec: the outcome of col_to_index
    src,              \* expression pipeline: the formula text
    lex,              \* expression pipeline: the Lex {tokens, errors}
    ast,              \* expression pipeline: the outcome of parse::parse
    ctx,              \* expression pipeline: the host Context (cell -> value)
    result,           \* expression pipeline: the outcome of the entry point
    parserRuns,       \* observer: number of calls of parse::parse
    ctxCalls,         \* observer: number of calls of Context::cell_value
    tree,             \* desktop: the DirectoryTree the calls are made on
    call,             \* desktop: the last DirectoryTree call and its outcome
    cells,            \* desktop: the fixed cells handed to the Spreadsheets
    sizes             \* desktop: the sizes the two Spreadsheets computed

vars == <<pc, entry, overflow_checks, cell, text, parsed, colIdx, colLabel,
          colText, colIndex, src, lex, ast, ctx, result, parserRuns, ctxCalls,
          tree, call, cells, sizes>>

addrVars == <<cell, text, parsed>>
codecVars == <<colIdx, colLabel, colText, colIndex>>
exprVars == <<src, lex, ast, ctx, result, parserRuns, ctxCalls>>
deskVars == <<tree, call, cells, sizes>>

None == [tag |-> "None"]
Some(v) == [tag |-> "Some", value |-> v]
Ok(v) == [tag |-> "Ok", value |-> v]
Err(e) == [tag |-> "Err", error |-> e]
Panic == [tag |-> "Panic"]
Idle == [tag |-> "Idle"]

(***************************************************************************)
(* Characters                                                              *)
(***************************************************************************)
ALPHABET == <<"A", "B", "C", "D", "E", "F", "G", "H", "I", "J", "K", "L", "M",
              "N", "O", "P", "Q", "R", "S", "T", "U", "V", "W", "X", "Y", "Z">>
LOWERCASE == <<"a", "b", "c", "d", "e", "f", "g", "h", "i", "j", "k", "l", "m",
               "n", "o", "p", "q", "r", "s", "t", "u", "v", "w", "x", "y", "z">>
DIGITS == <<"0", "1", "2", "3", "4", "5", "6", "7", "8", "9">>
ALPHABET_LEN == 26
SHEET_DELIMETER == "!"
REF_MODE_SIGIL == "$"
U16_MAX == 65535

Range(s) == {s[i] : i \in 1..Len(s)}

is_ascii_digit(ch) == ch \in Range(DIGITS)
is_ascii_uppercase(ch) == ch \in Range(ALPHABET)
is_ascii_lowercase(ch) == ch \in Range(LOWERCASE)
is_ascii_alphabetic(ch) == is_ascii_uppercase(ch) \/ is_ascii_lowercase(ch)
is_ascii_alphanumeric(ch) == is_ascii_alphabetic(ch) \/ is_ascii_digit(ch)

position(s, ch) == CHOOSE i \in 1..Len(s) : s[i] = ch

to_ascii_uppercase(ch) ==
    IF is_ascii_lowercase(ch) THEN ALPHABET[position(LOWERCASE, ch)] ELSE ch

to_ascii_lowercase(ch) ==
    IF is_ascii_uppercase(ch) THEN LOWERCASE[position(ALPHABET, ch)] ELSE ch

to_lowercase(s) == [i \in 1..Len(s) |-> to_ascii_lowercase(s[i])]

digit_value(ch) == position(DIGITS, ch) - 1

\* The decimal text of a natural number (u16's Display).
RECURSIVE to_string(_)
to_string(n) ==
    IF n < 10 THEN <<DIGITS[n + 1]>>
    ELSE to_string(n \div 10) \o <<DIGITS[(n % 10) + 1]>>

\* Accumulates decimal digits into a u16; None on a non-digit or on overflow.
RECURSIVE parse_digits(_, _, _)
parse_digits(s, i, acc) ==
    IF i > Len(s) THEN Some(acc)
    ELSE IF ~is_ascii_digit(s[i]) THEN None
    ELSE LET next == acc * 10 + digit_value(s[i])
         IN  IF next > U16_MAX THEN None ELSE parse_digits(s, i + 1, next)

\* str::parse::<u16>: an optional leading `+`, then one or more digits.
parse_u16(s) ==
    LET body == IF Len(s) > 0 /\ s[1] = "+" THEN Tail(s) ELSE s
    IN  IF Len(body) = 0 THEN None ELSE parse_digits(body, 1, 0)

(***************************************************************************)
(* Address model: src/core/src/utils.rs, src/core/src/data.rs              *)
(***************************************************************************)
\* (idx + 1).to_string(): the u16 addition aborts when overflow checks are
\* compiled in and wraps to 0 otherwise.
index_to_row(idx) ==
    IF idx + 1 > U16_MAX
    THEN IF overflow_checks THEN Panic ELSE Ok(to_string(0))
    ELSE Ok(to_string(idx + 1))

index_to_col(idx) ==
    LET scale == idx \div ALPHABET_LEN
    IN  IF scale = 0 THEN Ok(<<ALPHABET[idx + 1]>>)
        ELSE IF scale <= ALPHABET_LEN
        THEN Ok(<<ALPHABET[scale], ALPHABET[(idx % ALPHABET_LEN) + 1]>>)
        ELSE Panic

row_to_index(row) == IF row >= 1 THEN Some(row - 1) ELSE None

\* Mutation of col_to_index: the letters are looked up as written.
col_to_index_cased(col) ==
    IF Len(col) = 1
    THEN IF col[1] \in Range(ALPHABET)
         THEN Some(position(ALPHABET, col[1]) - 1)
         ELSE None
    ELSE IF Len(col) = 2
    THEN IF col[1] \notin Range(ALPHABET) \/ col[2] \notin Range(ALPHABET)
         THEN None
         ELSE Some(((position(ALPHABET, col[1]) - 1) + 1) * ALPHABET_LEN
                   + (position(ALPHABET, col[2]) - 1))
    ELSE None

col_to_index(col) ==
    IF Len(col) = 1
    THEN LET c1 == to_ascii_uppercase(col[1])
         IN  IF c1 \in Range(ALPHABET) THEN Some(position(ALPHABET, c1) - 1)
             ELSE None
    ELSE IF Len(col) = 2
    THEN LET c0 == to_ascii_uppercase(col[2])
             c1 == to_ascii_uppercase(col[1])
         IN  IF c0 \notin Range(ALPHABET) \/ c1 \notin Range(ALPHABET) THEN None
             ELSE Some(((position(ALPHABET, c1) - 1) + 1) * ALPHABET_LEN
                       + (position(ALPHABET, c0) - 1))
    ELSE None

Relative == "Relative"
Absolute == "Absolute"
RefMode == {Relative, Absolute}

SheetRelative == [kind |-> "Relative"]
SheetIndexOf(n) == [kind |-> "Index", index |-> n]
SheetLabelOf(s) == [kind |-> "Label", label |-> s]

CellRef(sheet, row, col, col_mode, row_mode) ==
    [sheet |-> sheet, row |-> row, col |-> col,
     col_mode |-> col_mode, row_mode |-> row_mode]

\* str::split_once(SHEET_DELIMETER): splits at the first delimiter.
split_once(value) ==
    IF \E i \in 1..Len(value) : value[i] = SHEET_DELIMETER
    THEN LET i == CHOOSE i \in 1..Len(value) :
                    /\ value[i] = SHEET_DELIMETER
                    /\ \A j \in 1..(i - 1) : value[j] # SHEET_DELIMETER
         IN  Some([sheet |-> SubSeq(value, 1, i - 1),
                   cell |-> SubSeq(value, i + 1, Len(value))])
    ELSE None

\* The sheet token: a numeric index when it parses as u16, a label otherwise.
sheet_of(token) ==
    IF parse_u16(token).tag = "Some"
    THEN SheetIndexOf(parse_u16(token).value)
    ELSE SheetLabelOf(token)

\* Index of the first character at or after i that is not an ASCII letter
\* (Len + 1 when the letters run to the end of the text).
RECURSIVE skip_alphabetic(_, _)
skip_alphabetic(s, i) ==
    IF i <= Len(s) /\ is_ascii_alphabetic(s[i]) THEN skip_alphabetic(s, i + 1)
    ELSE i

\* CellRef::from_str: Some(CellRef), None, or a panic when the row digits do
\* not fit IndexType (`.expect("row is a valid index")`).
from_str(value) ==
    LET split == split_once(value)
        body == IF split.tag = "Some" THEN split.value.cell ELSE value
        sheet == IF split.tag = "Some" THEN sheet_of(split.value.sheet)
                 ELSE SheetRelative
        n == Len(body)
        col_abs == n >= 1 /\ body[1] = REF_MODE_SIGIL
        c0 == IF col_abs THEN 2 ELSE 1
        c1 == skip_alphabetic(body, c0)
        row_abs == c1 <= n /\ body[c1] = REF_MODE_SIGIL
        r0 == IF row_abs THEN c1 + 1 ELSE c1
        col == SubSeq(body, c0, c1 - 1)
        row == SubSeq(body, r0, n)
    IN  IF n = 0 \/ c0 > n \/ c1 > n \/ r0 > n THEN None
        ELSE IF \E i \in r0..n : ~is_ascii_digit(body[i]) THEN None
        ELSE IF parse_u16(row).tag # "Some" THEN Panic
        ELSE IF col_to_index(col).tag # "Some" THEN None
        ELSE IF row_to_index(parse_u16(row).value).tag # "Some" THEN None
        ELSE Some(CellRef(sheet,
                          row_to_index(parse_u16(row).value).value,
                          col_to_index(col).value,
                          IF col_abs THEN Absolute ELSE Relative,
                          IF row_abs THEN Absolute ELSE Relative))

\* impl fmt::Display for CellRef.
fmt(r) ==
    LET sheet == IF r.sheet.kind = "Index"
                 THEN to_string(r.sheet.index) \o <<SHEET_DELIMETER>>
                 ELSE IF r.sheet.kind = "Label"
                 THEN r.sheet.label \o <<SHEET_DELIMETER>>
                 ELSE <<>>
        col_sigil == IF r.col_mode = Absolute THEN <<REF_MODE_SIGIL>> ELSE <<>>
        row_sigil == IF r.row_mode = Absolute THEN <<REF_MODE_SIGIL>> ELSE <<>>
        col == index_to_col(r.col)
        row == index_to_row(r.row)
    IN  IF col.tag = "Panic" \/ row.tag = "Panic" THEN Panic
        ELSE Ok(sheet \o col_sigil \o col.value \o row_sigil \o row.value)

(***************************************************************************)
(* Lexer: src/core/src/expr/lex.rs, src/core/src/expr/position.rs          *)
(***************************************************************************)
Span(start, end) == [start |-> start, end |-> end]
SpanAt(at) == [start |-> at, end |-> at + 1]
WithSpan(value, start, end) == [value |-> value, span |-> Span(start, end)]
WithSpanAt(value, at) == [value |-> value, span |-> SpanAt(at)]

Token(kind) == [kind |-> kind]
TokenNumber(value) == [kind |-> "Number", value |-> value]
TokenString(value, delimeter) ==
    [kind |-> "String", value |-> value, delimeter |-> delimeter]
TokenIdentifier(value) == [kind |-> "Identifier", value |-> value]
TokenCellRef(r) == [kind |-> "CellRef", cell |-> r]
TokenKeyword(word) == [kind |-> "Keyword", word |-> word]
TokenUnknown(ch) == [kind |-> "Unknown", char |-> ch]

\* Keyword::from_str over the lower-cased run.
keyword_from_str(value) ==
    IF value = <<"t", "r", "u", "e">> THEN Some("True")
    ELSE IF value = <<"f", "a", "l", "s", "e">> THEN Some("False")
    ELSE IF value = <<"a", "n", "d">> THEN Some("And")
    ELSE IF value = <<"o", "r">> THEN Some("Or")
    ELSE IF value = <<"s", "u", "m">> THEN Some("Sum")
    ELSE None

\* Scanner: `i` is the 1-based index of the next unread character (the
\* Peekable<Enumerate<Chars>>), `pos` and `complete` are the struct fields.
ScannerNew == [i |-> 1, pos |-> 0, complete |-> FALSE]

scanner_exhaust(sc) ==
    IF sc.complete THEN sc
    ELSE [sc EXCEPT !.pos = sc.pos + 1, !.complete = TRUE]

scanner_peek(s, sc) == IF sc.i <= Len(s) THEN Some(s[sc.i]) ELSE None

\* Iterator::next for Scanner.
scanner_next(s, sc) ==
    IF sc.i <= Len(s)
    THEN [char |-> Some(s[sc.i]),
          sc |-> [sc EXCEPT !.i = sc.i + 1, !.pos = sc.i - 1]]
    ELSE [char |-> None, sc |-> scanner_exhaust(sc)]

\* Scanner::next_if_eq: the else branch runs both at the end of the input and
\* when the next character differs from the expected one.
next_if_eq(s, sc, expected) ==
    IF sc.i <= Len(s) /\ s[sc.i] = expected
    THEN [char |-> Some(s[sc.i]),
          sc |-> [sc EXCEPT !.i = sc.i + 1, !.pos = sc.i - 1]]
    ELSE [char |-> None, sc |-> scanner_exhaust(sc)]

is_valid_ident_char(ch) == is_ascii_alphabetic(ch) \/ ch = "_"
is_valid_cell_ref_char(ch) ==
    is_ascii_alphanumeric(ch) \/ ch = "!" \/ ch = "$"
is_valid_ident_or_cell_ref_char(ch) ==
    is_valid_ident_char(ch) \/ is_valid_cell_ref_char(ch)
is_whitespace(ch) == ch \in {" ", "\t", "\r", "\n"}
is_number_char(ch) == is_ascii_digit(ch) \/ ch = "."
PredHolds(pred, ch, delim) ==
    CASE pred = "whitespace" -> is_whitespace(ch)
      [] pred = "not_delim" -> ch # delim
      [] pred = "cell_ref" -> is_valid_cell_ref_char(ch)
      [] pred = "number" -> is_number_char(ch)
      [] pred = "ident_or_cell_ref" -> is_valid_ident_or_cell_ref_char(ch)

\* Lexer::next_while: consumes while the peeked character satisfies the
\* predicate; reaching the end of the input does not call Scanner::next.
RECURSIVE next_while(_, _, _, _, _)
next_while(s, sc, pred, delim, chars) ==
    IF sc.i <= Len(s) /\ PredHolds(pred, s[sc.i], delim)
    THEN next_while(s, scanner_next(s, sc).sc, pred, delim,
                    Append(chars, s[sc.i]))
    ELSE [chars |-> chars, sc |-> sc]

\* Lexer::next_if_else followed by WithSpan::new(token, pos_start, it.pos).
next_if_else(s, sc, pos_start, to_match, matched, unmatched) ==
    LET spanned(r) ==
            [tag |-> "Token",
             item |-> WithSpan(IF r.char.tag = "Some" THEN Token(matched)
                               ELSE Token(unmatched),
                               pos_start, r.sc.pos),
             sc |-> r.sc]
    IN  spanned(next_if_eq(s, sc, to_match))

SingleCharToken(ch) ==
    CASE ch = ":" -> "Colon"
      [] ch = "," -> "Comma"
      [] ch = "-" -> "Minus"
      [] ch = "(" -> "ParenLeft"
      [] ch = ")" -> "ParenRight"
      [] ch = "%" -> "Percent"
      [] ch = "+" -> "Plus"
      [] ch = "/" -> "SlashForward"

CountRadix(value) == Cardinality({i \in 1..Len(value) : value[i] = "."})

lex_string(s, sc0, pos_start, ch) ==
    LET closed(body, close) ==
            IF close.char.tag = "Some"
            THEN [tag |-> "Token",
                  item |-> WithSpan(TokenString(body.chars,
                                        IF ch = "'" THEN "QuoteSingle"
                                        ELSE "QuoteDouble"),
                                    pos_start, close.sc.pos + 1),
                  sc |-> close.sc]
            ELSE [tag |-> "Error",
                  item |-> WithSpan("UnterminatedString", pos_start,
                                    close.sc.pos),
                  sc |-> close.sc]
        scanned(body) == closed(body, scanner_next(s, body.sc))
    IN  scanned(next_while(s, sc0, "not_delim", ch, <<>>))

lex_sigil(s, sc0, pos_start) ==
    LET referenced(rest, r) ==
            IF r.tag = "Panic" THEN [tag |-> "Panic", sc |-> rest.sc]
            ELSE IF r.tag = "Some"
            THEN [tag |-> "Token",
                  item |-> WithSpan(TokenCellRef(r.value), pos_start,
                                    rest.sc.pos + 1),
                  sc |-> rest.sc]
            ELSE [tag |-> "Error",
                  item |-> WithSpan("InvalidCellRef", pos_start, rest.sc.pos),
                  sc |-> rest.sc]
        scanned(rest) == referenced(rest, from_str(<<"$">> \o rest.chars))
    IN  scanned(next_while(s, sc0, "cell_ref", "", <<>>))

lex_number(s, sc0, pos_start, ch) ==
    LET numbered(rest, value) ==
            IF value[Len(value)] = "."
            THEN [tag |-> "Error",
                  item |-> WithSpan("RadixTerminator", pos_start, rest.sc.pos),
                  sc |-> rest.sc]
            ELSE IF CountRadix(value) > 1
            THEN [tag |-> "Error",
                  item |-> WithSpan("MultipleRadixPoints", pos_start,
                                    rest.sc.pos),
                  sc |-> rest.sc]
            ELSE [tag |-> "Token",
                  item |-> WithSpan(TokenNumber(value), pos_start, rest.sc.pos),
                  sc |-> rest.sc]
        scanned(rest) == numbered(rest, <<ch>> \o rest.chars)
    IN  scanned(next_while(s, sc0, "number", "", <<>>))

lex_alphabetic(s, sc0, pos_start, ch) ==
    LET named(rest, value, r, word) ==
            IF r.tag = "Panic" THEN [tag |-> "Panic", sc |-> rest.sc]
            ELSE [tag |-> "Token",
                  item |-> WithSpan(IF r.tag = "Some" THEN TokenCellRef(r.value)
                                    ELSE IF word.tag = "Some"
                                    THEN TokenKeyword(word.value)
                                    ELSE TokenIdentifier(value),
                                    pos_start, rest.sc.pos + 1),
                  sc |-> rest.sc]
        valued(rest, value) ==
            named(rest, value, from_str(value),
                  keyword_from_str(to_lowercase(value)))
        scanned(rest) == valued(rest, <<ch>> \o rest.chars)
    IN  scanned(next_while(s, sc0, "ident_or_cell_ref", "", <<>>))

\* Lexer::match_next_token: "None" at the end of the input, else a token, a
\* lexical error, or a panic raised inside CellRef::from_str.
match_next_token(s, sc) ==
    LET matched(sc0, pos_start, ch) ==
            IF ch \in {":", ",", "-", "(", ")", "%", "+", "/"}
            THEN [tag |-> "Token",
                  item |-> WithSpanAt(Token(SingleCharToken(ch)), pos_start),
                  sc |-> sc0]
            ELSE IF ch = "*"
            THEN next_if_else(s, sc0, pos_start, "*", "StarStar", "Star")
            ELSE IF ch = "!"
            THEN next_if_else(s, sc0, pos_start, "=", "BangEqual", "Bang")
            ELSE IF ch = "<"
            THEN next_if_else(s, sc0, pos_start, "=", "LessEqual", "Less")
            ELSE IF ch = ">"
            THEN next_if_else(s, sc0, pos_start, "=", "GreaterEqual",
                              "Greater")
            ELSE IF ch = "="
            THEN next_if_else(s, sc0, pos_start, "=", "EqualEqual", "Equal")
            ELSE IF ch = "'" \/ ch = "\""
            THEN lex_string(s, sc0, pos_start, ch)
            ELSE IF ch = "$" THEN lex_sigil(s, sc0, pos_start)
            ELSE IF is_ascii_digit(ch) THEN lex_number(s, sc0, pos_start, ch)
            ELSE IF is_ascii_alphabetic(ch)
            THEN lex_alphabetic(s, sc0, pos_start, ch)
            ELSE [tag |-> "Token",
                  item |-> WithSpanAt(TokenUnknown(ch), pos_start),
                  sc |-> sc0]
        started(first) ==
            IF first.char.tag = "None" THEN [tag |-> "None", sc |-> first.sc]
            ELSE matched(first.sc, first.sc.pos, first.char.value)
        skipped(ws) == started(scanner_next(s, ws.sc))
    IN  skipped(next_while(s, sc, "whitespace", "", <<>>))

Lex(tokens, errors) == [tag |-> "Lex", tokens |-> tokens, errors |-> errors]

\* Lexer::tokenize: the loop over match_next_token.
RECURSIVE lexer_loop(_, _, _, _)
lexer_loop(s, sc, tokens, errors) ==
    LET pushed(m) ==
            CASE m.tag = "None" -> Lex(tokens, errors)
              [] m.tag = "Panic" -> Panic
              [] m.tag = "Token" ->
                    lexer_loop(s, m.sc, Append(tokens, m.item), errors)
              [] m.tag = "Error" ->
                    lexer_loop(s, m.sc, tokens, Append(errors, m.item))
    IN  pushed(match_next_token(s, sc))

tokenize(s) == lexer_loop(s, ScannerNew, <<>>, <<>>)

(***************************************************************************)
(* Syntax tree: src/core/src/expr/ast.rs                                   *)
(***************************************************************************)
ExprEmpty == [kind |-> "Empty"]
LitString(value) == [kind |-> "Literal", lit |-> "String", value |-> value]
LitNumber(value) == [kind |-> "Literal", lit |-> "Number", value |-> value]
LitCellRef(r) == [kind |-> "Literal", lit |-> "CellRef", cell |-> r]
LitBool(b) == [kind |-> "Literal", lit |-> "Bool", bool |-> b]
ExprBinary(op, left, right) ==
    [kind |-> "Binary", op |-> op, left |-> left, right |-> right]
ExprUnary(op, expr) == [kind |-> "Unary", op |-> op, expr |-> expr]
ExprGroup(expr) ==
    [kind |-> "Group", delimeter |-> "Parenthesis", expr |-> expr]

BinaryTokens ==
    {"BangEqual", "EqualEqual", "Greater", "GreaterEqual", "Less", "LessEqual",
     "Minus", "Percent", "Plus", "SlashForward", "Star", "StarStar"}

\* OpBinary::from_token.
op_binary_from_token(kind) ==
    CASE kind = "BangEqual" -> Some("NotEqual")
      [] kind = "EqualEqual" -> Some("Equal")
      [] kind = "Greater" -> Some("Greater")
      [] kind = "GreaterEqual" -> Some("GreaterEqual")
      [] kind = "Less" -> Some("Less")
      [] kind = "LessEqual" -> Some("LessEqual")
      [] kind = "Minus" -> Some("Subtract")
      [] kind = "Percent" -> Some("Remainder")
      [] kind = "Plus" -> Some("Add")
      [] kind = "SlashForward" -> Some("Divide")
      [] kind = "Star" -> Some("Multiply")
      [] kind = "StarStar" -> Some("Exp")
      [] OTHER -> None

(***************************************************************************)
(* Parser: src/core/src/expr/parse.rs                                      *)
(***************************************************************************)
PrecNone == 0
PrecOr == 1
PrecAnd == 2
PrecCompare == 3
PrecSum == 4
PrecProduct == 5
PrecExponent == 6
PrecPrefix == 7
PrecUnambiguous == 8

\* Precedence::of: the Keyword and Unknown arms are todo!().
PrecedenceOf(kind) ==
    CASE kind = "ParenRight" -> Ok(PrecNone)
      [] kind \in {"Bang", "BangEqual", "EqualEqual", "Greater",
                   "GreaterEqual", "Less", "LessEqual"} -> Ok(PrecCompare)
      [] kind \in {"Plus", "Minus"} -> Ok(PrecSum)
      [] kind \in {"Star", "SlashForward", "Percent"} -> Ok(PrecProduct)
      [] kind = "StarStar" -> Ok(PrecExponent)
      [] kind = "Keyword" -> Panic
      [] kind = "Equal" -> Ok(PrecPrefix)
      [] kind \in {"CellRef", "Colon", "Comma", "Identifier", "Number",
                   "ParenLeft", "String"} -> Ok(PrecUnambiguous)
      [] kind = "Unknown" -> Panic

\* token::Kind::from_token: the kind without the data (a keyword keeps its word).
kind_from_token(token) ==
    IF token.kind = "Keyword" THEN [kind |-> "Keyword", word |-> token.word]
    ELSE [kind |-> token.kind]

\* Parser outcomes carry the parser's cursor, which the caller goes on using.
POk(expr, cursor) == [tag |-> "Ok", expr |-> expr, cursor |-> cursor]
PErr(kind, start, end, cursor) ==
    [tag |-> "Err", error |-> WithSpan(kind, start, end), cursor |-> cursor]
PPanic == [tag |-> "Panic"]

UnexpectedEndOfInut == [kind |-> "UnexpectedEndOfInut"]
InvalidPrefix == [kind |-> "InvalidPrefix"]
UnexpectedToken(expected, found) ==
    [kind |-> "UnexpectedToken", expected |-> expected, found |-> found]
UnclosedGroup == [kind |-> "UnclosedGroup", expeted |-> "Parenthesis"]

parser_eof(tokens, cursor) == cursor >= Len(tokens)
parser_peek(tokens, cursor) == tokens[cursor + 1].value

\* parse_literal: consumes one literal token.
parse_literal(tokens, cursor) ==
    LET next == tokens[cursor + 1].value
    IN  CASE next.kind = "String" -> POk(LitString(next.value), cursor + 1)
          [] next.kind = "Number" -> POk(LitNumber(next.value), cursor + 1)
          [] next.kind = "CellRef" -> POk(LitCellRef(next.cell), cursor + 1)
          [] next.kind = "Keyword" /\ next.word = "True" ->
                POk(LitBool(TRUE), cursor + 1)
          [] next.kind = "Keyword" /\ next.word = "False" ->
                POk(LitBool(FALSE), cursor + 1)
          [] OTHER -> PPanic

RECURSIVE parse_expr(_, _, _)
RECURSIVE parse_expr_loop(_, _, _, _)
RECURSIVE parse_prefix(_, _)
RECURSIVE parse_infix(_, _, _)
RECURSIVE parse_group(_, _)
RECURSIVE parse_binary(_, _, _)
RECURSIVE parse_unary(_, _)

\* The precedence handed to the recursive parse of a right-hand operand.
RhsPrecedence(op_kind) == PrecNone

\* parse_binary: consumes the operator, then parses the right-hand operand.
parse_binary(tokens, cursor, lhs) ==
    LET combined(op, rhs) ==
            IF op.tag # "Some" THEN PPanic
            ELSE IF rhs.tag # "Ok" THEN rhs
            ELSE POk(ExprBinary(op.value, lhs, rhs.expr), rhs.cursor)
        operated(op_token) ==
            combined(op_binary_from_token(op_token.kind),
                     parse_expr(tokens, cursor + 1,
                                RhsPrecedence(op_token.kind)))
    IN  operated(tokens[cursor + 1].value)

\* Mutation of parse_unary: the operand of `-` is parsed at Precedence::None.
parse_unary_loose(tokens, cursor) ==
    LET negated(operand) ==
            IF operand.tag # "Ok" THEN operand
            ELSE POk(ExprUnary("Minus", operand.expr), operand.cursor)
        inverted(operand) ==
            IF operand.tag # "Ok" THEN operand
            ELSE POk(ExprUnary("Not", operand.expr), operand.cursor)
        applied(next, after) ==
            IF next.kind = "Minus"
            THEN IF parser_eof(tokens, after)
                 THEN PErr(UnexpectedEndOfInut, after, after + 1, after)
                 ELSE IF parser_peek(tokens, after).kind = "Number"
                 THEN POk(LitNumber(<<"-">>
                                    \o parser_peek(tokens, after).value),
                          after + 1)
                 ELSE negated(parse_expr(tokens, after, PrecNone))
            ELSE IF next.kind = "Bang"
            THEN inverted(parse_expr(tokens, after, PrecPrefix))
            ELSE PPanic
    IN  applied(tokens[cursor + 1].value, cursor + 1)

\* parse_unary: `-` followed by a number literal folds into the literal.
parse_unary(tokens, cursor) ==
    LET negated(operand) ==
            IF operand.tag # "Ok" THEN operand
            ELSE POk(ExprUnary("Minus", operand.expr), operand.cursor)
        inverted(operand) ==
            IF operand.tag # "Ok" THEN operand
            ELSE POk(ExprUnary("Not", operand.expr), operand.cursor)
        applied(next, after) ==
            IF next.kind = "Minus"
            THEN IF parser_eof(tokens, after)
                 THEN PErr(UnexpectedEndOfInut, after, after + 1, after)
                 ELSE IF parser_peek(tokens, after).kind = "Number"
                 THEN POk(LitNumber(<<"-">>
                                    \o parser_peek(tokens, after).value),
                          after + 1)
                 ELSE negated(parse_expr(tokens, after, PrecPrefix))
            ELSE IF next.kind = "Bang"
            THEN inverted(parse_expr(tokens, after, PrecPrefix))
            ELSE PPanic
    IN  applied(tokens[cursor + 1].value, cursor + 1)

\* parse_group: an UnexpectedToken{found: ParenRight} from the body is taken
\* as an empty body.
parse_group(tokens, cursor) ==
    LET closed(pos_start, body, empty, at) ==
            IF body.tag = "Panic" THEN PPanic
            ELSE IF body.tag = "Err" /\ ~empty THEN body
            ELSE IF parser_eof(tokens, at)
            THEN PErr(UnexpectedEndOfInut, pos_start, at, at)
            ELSE IF tokens[at + 1].value.kind = "ParenRight"
            THEN POk(ExprGroup(IF empty THEN ExprEmpty ELSE body.expr), at + 1)
            ELSE PErr(UnclosedGroup, pos_start, at + 1, at + 1)
        opened(body) ==
            closed(cursor, body,
                   /\ body.tag = "Err"
                   /\ body.error.value.kind = "UnexpectedToken"
                   /\ body.error.value.found.kind = "ParenRight",
                   IF body.tag = "Panic" THEN cursor ELSE body.cursor)
    IN  opened(parse_expr(tokens, cursor + 1, PrecNone))

\* parse_prefix: the Identifier, Unknown and and/or/sum arms are todo!().
parse_prefix(tokens, cursor) ==
    LET peeked(token) ==
            CASE token.kind \in {"String", "CellRef", "Number"} ->
                    parse_literal(tokens, cursor)
              [] token.kind \in {"Bang", "Minus"} ->
                    parse_unary(tokens, cursor)
              [] token.kind \in {"BangEqual", "Colon", "Comma", "Equal",
                                 "EqualEqual", "Greater", "GreaterEqual",
                                 "Less", "LessEqual", "Percent", "Plus",
                                 "SlashForward", "Star", "StarStar"} ->
                    PErr(InvalidPrefix, cursor, cursor + 1, cursor)
              [] token.kind = "Keyword" ->
                    IF token.word \in {"True", "False"}
                    THEN parse_literal(tokens, cursor)
                    ELSE PPanic
              [] token.kind = "Identifier" -> PPanic
              [] token.kind = "ParenLeft" -> parse_group(tokens, cursor)
              [] token.kind = "ParenRight" ->
                    PErr(UnexpectedToken("VALID_PREFIX_TOKENS",
                                         kind_from_token(token)),
                         cursor, cursor + 1, cursor)
              [] token.kind = "Unknown" -> PPanic
    IN  IF parser_eof(tokens, cursor)
        THEN PErr(UnexpectedEndOfInut, cursor, cursor + 1, cursor)
        ELSE peeked(parser_peek(tokens, cursor))

\* parse_infix: the ParenLeft, ParenRight and and/or/sum arms are todo!().
parse_infix(tokens, cursor, lhs) ==
    LET peeked(next) ==
            CASE next.kind \in BinaryTokens ->
                    parse_binary(tokens, cursor, lhs)
              [] next.kind \in {"ParenLeft", "ParenRight"} -> PPanic
              [] next.kind = "Keyword" /\ next.word \in {"And", "Or", "Sum"} ->
                    PPanic
              [] OTHER ->
                    PErr(UnexpectedToken("VALID_TOKEN_KINDS",
                                         kind_from_token(next)),
                         cursor, cursor + 1, cursor)
    IN  peeked(parser_peek(tokens, cursor))

\* The `while !parser.eof()` loop of parse_expr.
parse_expr_loop(tokens, cursor, expr, precedence) ==
    LET continued(infix) ==
            IF infix.tag # "Ok" THEN infix
            ELSE parse_expr_loop(tokens, infix.cursor, infix.expr, precedence)
        compared(of) ==
            IF of.tag = "Panic" THEN PPanic
            ELSE IF precedence >= of.value THEN POk(expr, cursor)
            ELSE continued(parse_infix(tokens, cursor, expr))
    IN  IF parser_eof(tokens, cursor) THEN POk(expr, cursor)
        ELSE compared(PrecedenceOf(parser_peek(tokens, cursor).kind))

parse_expr(tokens, cursor, precedence) ==
    LET continued(prefix) ==
            IF prefix.tag # "Ok" THEN prefix
            ELSE parse_expr_loop(tokens, prefix.cursor, prefix.expr,
                                 precedence)
    IN  continued(parse_prefix(tokens, cursor))

\* parse::parse: an empty token list is Expr::Empty.
parse(tokens) ==
    IF Len(tokens) = 0 THEN POk(ExprEmpty, 0)
    ELSE parse_expr(tokens, 0, PrecNone)

(***************************************************************************)
(* Values: src/core/src/expr/eval.rs                                       *)
(*                                                                         *)
(* i64 is modelled as a two's-complement integer of IntBits bits, and the  *)
(* u32 / i32 exponent types of `**` as integers of IntBits \div 2 bits, so *)
(* that every overflow boundary of the code stays inside the integers TLC  *)
(* computes with.  An f64 is an exact rational with a sign bit (so that    *)
(* -0.0 and 0.0 are two values), one of the IEEE specials inf, -inf, nan,  *)
(* or `irr`: a finite value the model does not compute (a power with a     *)
(* fractional exponent).  The model has no rounding: an Int converts to    *)
(* the same rational.                                                      *)
(***************************************************************************)
IntBits == 6

RECURSIVE Pow2(_)
Pow2(n) == IF n = 0 THEN 1 ELSE 2 * Pow2(n - 1)

I64_MIN == -Pow2(IntBits - 1)
I64_MAX == Pow2(IntBits - 1) - 1
U32_MAX == Pow2(IntBits \div 2) - 1
I32_MIN == -Pow2((IntBits \div 2) - 1)
I32_MAX == Pow2((IntBits \div 2) - 1) - 1

FitsI64(n) == I64_MIN <= n /\ n <= I64_MAX

Abs(n) == IF n < 0 THEN -n ELSE n
Sign(n) == IF n < 0 THEN -1 ELSE IF n > 0 THEN 1 ELSE 0

RECURSIVE Gcd(_, _)
Gcd(a, b) == IF b = 0 THEN a ELSE Gcd(b, a % b)

\* Rust's `/` and `%` on integers truncate towards zero.
TruncDiv(a, b) == Sign(a) * Sign(b) * (Abs(a) \div Abs(b))
TruncRem(a, b) == a - b * TruncDiv(a, b)

ValueEmpty == [tag |-> "Empty"]
ValueString(str) == [tag |-> "String", str |-> str]
ValueInt(n) == [tag |-> "Int", int |-> n]
ValueFloat(f) == [tag |-> "Float", float |-> f]
ValueBool(b) == [tag |-> "Bool", bool |-> b]
ValueDateTime(t) == [tag |-> "DateTime", time |-> t]
ValueDuration(d) == [tag |-> "Duration", dur |-> d]

is_int(v) == v.tag = "Int"
is_float(v) == v.tag = "Float"
is_number(v) == is_int(v) \/ is_float(v)

\* A finite f64 is an exact rational n/d with its sign bit, which tells the
\* two zeros apart; "irr" stands for a finite value that is not rational.
Fin(n, d) ==
    LET g == Gcd(Abs(n), Abs(d))
    IN  [cls |-> "fin", n |-> Sign(d) * (n \div g), d |-> Abs(d) \div g,
         neg |-> Sign(d) * n < 0]
FInf == [cls |-> "inf"]
FNegInf == [cls |-> "ninf"]
FNan == [cls |-> "nan"]
FIrr == [cls |-> "irr"]
FZero == Fin(0, 1)
FNegZero == [cls |-> "fin", n |-> 0, d |-> 1, neg |-> TRUE]

FIsFin(a) == a.cls = "fin"
FIsInfinite(a) == a.cls \in {"inf", "ninf"}
FIsZero(a) == a.cls = "fin" /\ a.n = 0
FSign(a) ==
    CASE a.cls = "fin" -> Sign(a.n)
      [] a.cls = "inf" -> 1
      [] a.cls = "ninf" -> -1
      [] OTHER -> 0
FSignBit(a) == a.cls = "ninf" \/ (a.cls = "fin" /\ a.neg)
FSigned(sign) == IF sign < 0 THEN FNegInf ELSE FInf
FZeroOf(negative) == IF negative THEN FNegZero ELSE FZero

FNeg(a) ==
    CASE a.cls = "fin" -> IF a.n = 0 THEN FZeroOf(~a.neg) ELSE Fin(-a.n, a.d)
      [] a.cls = "inf" -> FNegInf
      [] a.cls = "ninf" -> FInf
      [] OTHER -> a

\* A zero sum is -0.0 only when both terms are -0.0.
FAdd(a, b) ==
    IF a.cls = "nan" \/ b.cls = "nan" THEN FNan
    ELSE IF FIsInfinite(a) /\ FIsInfinite(b)
    THEN IF a = b THEN a ELSE FNan
    ELSE IF FIsInfinite(a) THEN a
    ELSE IF FIsInfinite(b) THEN b
    ELSE IF a.cls = "irr" \/ b.cls = "irr" THEN FIrr
    ELSE LET signed(sum) ==
                 IF sum.n = 0 THEN FZeroOf(a.neg /\ b.neg) ELSE sum
         IN  signed(Fin(a.n * b.d + b.n * a.d, a.d * b.d))

FSub(a, b) == FAdd(a, FNeg(b))

\* The sign of a product or a quotient is the exclusive or of the sign bits.
FMul(a, b) ==
    IF a.cls = "nan" \/ b.cls = "nan" THEN FNan
    ELSE IF FIsInfinite(a) \/ FIsInfinite(b)
    THEN IF FIsZero(a) \/ FIsZero(b) THEN FNan
         ELSE FSigned(IF FSignBit(a) # FSignBit(b) THEN -1 ELSE 1)
    ELSE IF FIsZero(a) \/ FIsZero(b) THEN FZeroOf(FSignBit(a) # FSignBit(b))
    ELSE IF a.cls = "irr" \/ b.cls = "irr" THEN FIrr
    ELSE Fin(a.n * b.n, a.d * b.d)

FDiv(a, b) ==
    IF a.cls = "nan" \/ b.cls = "nan" THEN FNan
    ELSE IF FIsInfinite(a)
    THEN IF FIsInfinite(b) THEN FNan
         ELSE FSigned(IF FSignBit(a) # FSignBit(b) THEN -1 ELSE 1)
    ELSE IF FIsInfinite(b) THEN FZeroOf(FSignBit(a) # FSignBit(b))
    ELSE IF FIsZero(b)
    THEN IF FIsZero(a) THEN FNan
         ELSE FSigned(IF FSignBit(a) # FSignBit(b) THEN -1 ELSE 1)
    ELSE IF FIsZero(a) THEN FZeroOf(FSignBit(a) # FSignBit(b))
    ELSE IF a.cls = "irr" \/ b.cls = "irr" THEN FIrr
    ELSE Fin(a.n * b.d, a.d * b.n)

\* f64 `%`: the remainder of the truncated quotient, with the dividend's sign.
FRem(a, b) ==
    IF a.cls = "nan" \/ b.cls = "nan" THEN FNan
    ELSE IF FIsInfinite(a) \/ FIsZero(b) THEN FNan
    ELSE IF FIsInfinite(b) THEN a
    ELSE IF a.cls = "irr" \/ b.cls = "irr" THEN FIrr
    ELSE LET signed(rem) == IF rem.n = 0 THEN FZeroOf(a.neg) ELSE rem
             q == TruncDiv(a.n * b.d, a.d * b.n)
         IN  signed(Fin(a.n * b.d - q * b.n * a.d, a.d * b.d))

RECURSIVE IntPow(_, _)
IntPow(base, n) == IF n = 0 THEN 1 ELSE base * IntPow(base, n - 1)

\* f64::powi.
powi(a, n) ==
    IF n = 0 THEN Fin(1, 1)
    ELSE IF a.cls = "nan" THEN FNan
    ELSE IF a.cls = "irr" THEN FIrr
    ELSE IF FIsInfinite(a)
    THEN IF n < 0 THEN FZeroOf(a.cls = "ninf" /\ n % 2 = 1)
         ELSE IF a.cls = "ninf" /\ n % 2 = 1 THEN FNegInf ELSE FInf
    ELSE IF FIsZero(a)
    THEN IF n < 0 THEN FSigned(IF a.neg /\ n % 2 = 1 THEN -1 ELSE 1)
         ELSE FZeroOf(a.neg /\ n % 2 = 1)
    ELSE IF n > 0 THEN Fin(IntPow(a.n, n), IntPow(a.d, n))
    ELSE Fin(IntPow(a.d, -n), IntPow(a.n, -n))

FAbsCmpOne(a) ==
    IF FIsInfinite(a) THEN 1
    ELSE IF Abs(a.n) > a.d THEN 1 ELSE IF Abs(a.n) < a.d THEN -1 ELSE 0

\* f64::powf.
powf(a, b) ==
    IF FIsZero(b) \/ a = Fin(1, 1) THEN Fin(1, 1)
    ELSE IF a.cls = "nan" \/ b.cls = "nan" THEN FNan
    ELSE IF a.cls = "irr" \/ b.cls = "irr" THEN FIrr
    ELSE IF FIsInfinite(b)
    THEN IF FAbsCmpOne(a) = 0 THEN Fin(1, 1)
         ELSE IF (FAbsCmpOne(a) > 0) = (b.cls = "inf") THEN FInf ELSE FZero
    ELSE IF b.d = 1 THEN powi(a, b.n)
    ELSE IF FIsInfinite(a)
    THEN IF b.n < 0 THEN FZero ELSE FInf
    ELSE IF FIsZero(a) THEN IF b.n < 0 THEN FInf ELSE FZero
    ELSE IF a.n < 0 THEN FNan
    ELSE FIrr

\* `value as f64`.
as_f64(n) == Fin(n, 1)

\* Value::as_number, applied only where is_number holds.
as_number(v) == IF is_float(v) THEN v.float ELSE as_f64(v.int)

\* i64::checked_add / checked_sub / checked_mul / checked_div / checked_rem.
\* Mutation of checked_add: two's-complement wrapping addition.
wrapping_add(a, b) == Some(((a + b - I64_MIN) % Pow2(IntBits)) + I64_MIN)

checked_add(a, b) == IF FitsI64(a + b) THEN Some(a + b) ELSE None
checked_sub(a, b) == IF FitsI64(a - b) THEN Some(a - b) ELSE None
checked_mul(a, b) == IF FitsI64(a * b) THEN Some(a * b) ELSE None
checked_div(a, b) ==
    IF b = 0 \/ ~FitsI64(TruncDiv(a, b)) THEN None ELSE Some(TruncDiv(a, b))
checked_rem(a, b) ==
    IF b = 0 \/ ~FitsI64(TruncDiv(a, b)) THEN None ELSE Some(TruncRem(a, b))

\* i64::checked_pow: None as soon as a partial product leaves i64.
RECURSIVE checked_pow(_, _)
checked_pow(a, exp) ==
    IF exp = 0 THEN Some(1)
    ELSE LET rest == checked_pow(a, exp - 1)
         IN  IF rest.tag = "None" THEN None ELSE checked_mul(rest.value, a)

\* u32::try_from(i64) and i32::try_from(i64).
u32_try_from(n) == IF 0 <= n /\ n <= U32_MAX THEN Some(n) ELSE None
i32_try_from(n) == IF I32_MIN <= n /\ n <= I32_MAX THEN Some(n) ELSE None

\* The `%` operator on i64: aborts on a zero divisor and on MIN % -1.
int_rem(a, b) ==
    IF b = 0 \/ ~FitsI64(TruncDiv(a, b)) THEN Panic ELSE Ok(TruncRem(a, b))

Overflow == [kind |-> "Overflow"]
Div0 == [kind |-> "Div0"]
InvalidNumber == [kind |-> "InvalidNumber"]
InvalidOperation(reason) == [kind |-> "InvalidOperation", reason |-> reason]
InvalidCellRef(r) == [kind |-> "InvalidCellRef", cell |-> r]
ErrorTokenize(k) == [kind |-> "Tokenize", lex |-> k]
ErrorParse(k) == [kind |-> "Parse", parse |-> k]

CellRefDoesNotExist == [kind |-> "CellRefDoesNotExist"]
CellRefValueError(e) == [kind |-> "CellRefValueError", error |-> e]

checked_value(r) == IF r.tag = "Some" THEN Ok(ValueInt(r.value)) ELSE Err(Overflow)

(***************************************************************************)
(* Evaluator: src/core/src/expr/eval.rs                                    *)
(***************************************************************************)
AllDigits(s) == Len(s) > 0 /\ \A i \in 1..Len(s) : is_ascii_digit(s[i])

RECURSIVE DigitsValue(_)
DigitsValue(s) ==
    IF Len(s) = 0 THEN 0
    ELSE DigitsValue(SubSeq(s, 1, Len(s) - 1)) * 10 + digit_value(s[Len(s)])

RECURSIVE Pow10(_)
Pow10(n) == IF n = 0 THEN 1 ELSE 10 * Pow10(n - 1)

Unsigned(s) == IF Len(s) > 0 /\ s[1] \in {"-", "+"} THEN Tail(s) ELSE s
Negative(s) == Len(s) > 0 /\ s[1] = "-"

\* str::parse::<i64>: an optional sign and digits, within the i64 range.
parse_i64(s) ==
    LET n == IF Negative(s) THEN -DigitsValue(Unsigned(s))
             ELSE DigitsValue(Unsigned(s))
    IN  IF AllDigits(Unsigned(s)) /\ FitsI64(n) THEN Ok(n) ELSE Err("ParseIntError")

\* str::parse::<f64> on decimal text: digits, optionally a radix point with
\* digits on either side.
parse_f64(s) ==
    LET u == Unsigned(s)
        dots == {i \in 1..Len(u) : u[i] = "."}
        dot == IF dots = {} THEN Len(u) + 1 ELSE CHOOSE i \in dots : TRUE
        whole == SubSeq(u, 1, dot - 1)
        frac == SubSeq(u, dot + 1, Len(u))
        digits == whole \o frac
        n == DigitsValue(digits)
    IN  IF Cardinality(dots) > 1 \/ ~AllDigits(digits)
        THEN Err("ParseFloatError")
        ELSE IF n = 0 THEN Ok(FZeroOf(Negative(s)))
        ELSE Ok(Fin(IF Negative(s) THEN -n ELSE n, Pow10(Len(frac))))

\* eval_literal, Number arm: i64 first, f64 as the fallback.
eval_number(value) ==
    LET as_float(f) ==
            IF f.tag = "Ok" THEN Ok(ValueFloat(f.value)) ELSE Err(InvalidNumber)
        as_int(n) ==
            IF n.tag = "Ok" THEN Ok(ValueInt(n.value))
            ELSE as_float(parse_f64(value))
    IN  as_int(parse_i64(value))

\* Context::cell_value of the host: a cell the context does not hold does
\* not exist.
cell_value(context, r) ==
    IF r \in DOMAIN context THEN context[r] ELSE Err(CellRefDoesNotExist)

\* Mutation of eval_cell_ref: an error stored in the cell is reported as an
\* invalid reference.
eval_cell_ref_masked(context, r) ==
    LET v == cell_value(context, r)
    IN  IF v.tag = "Ok" THEN v ELSE Err(InvalidCellRef(r))

\* eval_literal, CellRef arm: the map_err over ContextError.
eval_cell_ref(context, r) ==
    LET v == cell_value(context, r)
    IN  IF v.tag = "Ok" THEN v
        ELSE IF v.error.kind = "CellRefDoesNotExist" THEN Err(InvalidCellRef(r))
        ELSE Err(v.error.error)

\* Mutation of eval_add: an Empty operand counts as zero.
eval_add_empty(left, right) ==
    IF is_int(left) /\ is_int(right)
    THEN checked_value(checked_add(left.int, right.int))
    ELSE IF is_number(left) /\ is_number(right)
    THEN Ok(ValueFloat(FAdd(as_number(left), as_number(right))))
    ELSE IF left = ValueEmpty /\ is_number(right) THEN Ok(right)
    ELSE IF is_number(left) /\ right = ValueEmpty THEN Ok(left)
    ELSE Err(InvalidOperation("can only add numbers"))

eval_add(left, right) ==
    IF is_int(left) /\ is_int(right)
    THEN checked_value(checked_add(left.int, right.int))
    ELSE IF is_number(left) /\ is_number(right)
    THEN Ok(ValueFloat(FAdd(as_number(left), as_number(right))))
    ELSE Err(InvalidOperation("can only add numbers"))

eval_subtract(left, right) ==
    IF is_int(left) /\ is_int(right)
    THEN checked_value(checked_sub(left.int, right.int))
    ELSE IF is_number(left) /\ is_number(right)
    THEN Ok(ValueFloat(FSub(as_number(left), as_number(right))))
    ELSE Err(InvalidOperation("can only subtract numbers"))

eval_multiply(left, right) ==
    IF is_int(left) /\ is_int(right)
    THEN checked_value(checked_mul(left.int, right.int))
    ELSE IF is_number(left) /\ is_number(right)
    THEN Ok(ValueFloat(FMul(as_number(left), as_number(right))))
    ELSE Err(InvalidOperation("can only multiply numbers"))

\* Divide on two Ints: `left % right == 0` is computed before checked_div.
eval_divide_int(left, right) ==
    LET rem == int_rem(left, right)
    IN  IF rem.tag = "Panic" THEN Panic
        ELSE IF rem.value = 0 THEN checked_value(checked_div(left, right))
        ELSE Ok(ValueFloat(FDiv(as_f64(left), as_f64(right))))

eval_divide(left, right) ==
    IF is_int(left) /\ is_int(right) THEN eval_divide_int(left.int, right.int)
    ELSE IF is_number(left) /\ is_number(right)
    THEN Ok(ValueFloat(FDiv(as_number(left), as_number(right))))
    ELSE Err(InvalidOperation("can only divide numbers"))

eval_remainder(left, right) ==
    IF is_int(left) /\ is_int(right)
    THEN checked_value(checked_rem(left.int, right.int))
    ELSE IF is_number(left) /\ is_number(right)
    THEN Ok(ValueFloat(FRem(as_number(left), as_number(right))))
    ELSE Err(InvalidOperation("can only take remainder numbers"))

\* Mutation of eval_exp_int: no powi branch, so an exponent that is not a u32
\* is always an Overflow.
eval_exp_int_unsigned(left, right) ==
    IF u32_try_from(right).tag = "Some"
    THEN checked_value(checked_pow(left, right))
    ELSE Err(Overflow)

\* Exp on two Ints: checked_pow for a u32 exponent, powi for a negative
\* exponent that fits i32, Overflow otherwise.
eval_exp_int(left, right) ==
    IF u32_try_from(right).tag = "Some"
    THEN checked_value(checked_pow(left, right))
    ELSE IF i32_try_from(right).tag = "Some"
    THEN Ok(ValueFloat(powi(as_f64(left), right)))
    ELSE Err(Overflow)

eval_exp(left, right) ==
    IF is_int(left) /\ is_int(right) THEN eval_exp_int(left.int, right.int)
    ELSE IF is_number(left) /\ is_int(right)
    THEN IF i32_try_from(right.int).tag = "Some"
         THEN Ok(ValueFloat(powi(as_number(left), right.int)))
         ELSE Err(Overflow)
    ELSE IF is_number(left) /\ is_float(right)
    THEN Ok(ValueFloat(powf(as_number(left), right.float)))
    ELSE Err(InvalidOperation("can only exponentiate numbers"))

\* f64 `==`: NaN equals nothing, and the two zeros are equal.
FEq(a, b) ==
    /\ a.cls \notin {"nan", "irr"}
    /\ a = b \/ (FIsZero(a) /\ FIsZero(b))

\* value_eq: None when the kinds cannot be compared.
value_eq(left, right) ==
    CASE left.tag = "Empty" /\ right.tag = "Empty" -> Some(TRUE)
      [] left.tag = "String" /\ right.tag = "String" ->
            Some(left.str = right.str)
      [] left.tag = "Bool" /\ right.tag = "Bool" -> Some(left.bool = right.bool)
      [] is_number(left) /\ is_number(right) ->
            Some(FEq(as_number(left), as_number(right)))
      [] left.tag = "DateTime" /\ right.tag = "DateTime" ->
            Some(left.time = right.time)
      [] left.tag = "Duration" /\ right.tag = "Duration" ->
            Some(left.dur = right.dur)
      [] OTHER -> None

\* f64::total_cmp on two floats that are not NaN: -0.0 is below +0.0.
FCmp(a, b) ==
    LET rank(x) == CASE x.cls = "ninf" -> -1 [] x.cls = "inf" -> 1 [] OTHER -> 0
    IN  IF rank(a) # rank(b) THEN (IF rank(a) < rank(b) THEN "Less" ELSE "Greater")
        ELSE IF ~(FIsFin(a) /\ FIsFin(b)) THEN "Equal"
        ELSE IF a.n * b.d < b.n * a.d THEN "Less"
        ELSE IF a.n * b.d > b.n * a.d THEN "Greater"
        ELSE IF a.neg = b.neg THEN "Equal"
        ELSE IF a.neg THEN "Less" ELSE "Greater"

IntCmp(a, b) == IF a < b THEN "Less" ELSE IF a > b THEN "Greater" ELSE "Equal"

\* Byte order of the characters that occur in string values.
CharRank(ch) ==
    IF is_ascii_digit(ch) THEN 48 + digit_value(ch)
    ELSE IF is_ascii_uppercase(ch) THEN 64 + position(ALPHABET, ch)
    ELSE IF is_ascii_lowercase(ch) THEN 96 + position(LOWERCASE, ch)
    ELSE 32

\* String::cmp: lexicographic byte order.
RECURSIVE SeqCmp(_, _)
SeqCmp(a, b) ==
    IF Len(a) = 0 /\ Len(b) = 0 THEN "Equal"
    ELSE IF Len(a) = 0 THEN "Less"
    ELSE IF Len(b) = 0 THEN "Greater"
    ELSE IF CharRank(a[1]) < CharRank(b[1]) THEN "Less"
    ELSE IF CharRank(a[1]) > CharRank(b[1]) THEN "Greater"
    ELSE SeqCmp(Tail(a), Tail(b))

\* value_ord: None for a NaN operand and for kinds that cannot be ordered.
value_ord(left, right) ==
    CASE left.tag = "String" /\ right.tag = "String" ->
            Some(SeqCmp(left.str, right.str))
      [] is_int(left) /\ is_int(right) -> Some(IntCmp(left.int, right.int))
      [] is_float(left) /\ is_float(right) ->
            IF left.float.cls = "nan" \/ right.float.cls = "nan" THEN None
            ELSE IF FIsZero(left.float) /\ FIsZero(right.float)
            THEN Some("Equal")
            ELSE Some(FCmp(left.float, right.float))
      [] is_number(left) /\ is_number(right) ->
            IF as_number(left).cls = "nan" \/ as_number(right).cls = "nan"
            THEN None
            ELSE Some(FCmp(as_number(left), as_number(right)))
      [] left.tag = "DateTime" /\ right.tag = "DateTime" ->
            Some(IntCmp(left.time, right.time))
      [] left.tag = "Duration" /\ right.tag = "Duration" ->
            Some(IntCmp(left.dur, right.dur))
      [] OTHER -> None

eval_compare(op, left, right) ==
    LET eq == value_eq(left, right)
        ord == value_ord(left, right)
        cannot == Err(InvalidOperation("can not compare types"))
    IN  CASE op = "Equal" ->
                IF eq.tag = "Some" THEN Ok(ValueBool(eq.value)) ELSE cannot
          [] op = "NotEqual" ->
                IF eq.tag = "Some" THEN Ok(ValueBool(~eq.value)) ELSE cannot
          [] op = "Greater" ->
                IF ord.tag = "Some" THEN Ok(ValueBool(ord.value = "Greater"))
                ELSE cannot
          [] op = "GreaterEqual" ->
                IF ord.tag = "Some"
                THEN Ok(ValueBool(ord.value \in {"Greater", "Equal"}))
                ELSE cannot
          [] op = "Less" ->
                IF ord.tag = "Some" THEN Ok(ValueBool(ord.value = "Less"))
                ELSE cannot
          [] op = "LessEqual" ->
                IF ord.tag = "Some"
                THEN Ok(ValueBool(ord.value \in {"Less", "Equal"}))
                ELSE cannot

\* The `match expr.op` of eval_binary, on the two evaluated operands.
eval_binary_op(op, left, right) ==
    CASE op = "Add" -> eval_add(left, right)
      [] op = "Subtract" -> eval_subtract(left, right)
      [] op = "Multiply" -> eval_multiply(left, right)
      [] op = "Divide" -> eval_divide(left, right)
      [] op = "Remainder" -> eval_remainder(left, right)
      [] op = "Exp" -> eval_exp(left, right)
      [] op \in {"Equal", "NotEqual", "Greater", "GreaterEqual", "Less",
                 "LessEqual"} -> eval_compare(op, left, right)
      [] op \in {"And", "Or"} -> Panic

\* `-value` on an i64: negating MIN aborts when overflow checks are compiled
\* in and wraps to MIN otherwise.
int_neg(n) ==
    IF FitsI64(-n) THEN Ok(ValueInt(-n))
    ELSE IF overflow_checks THEN Panic ELSE Ok(ValueInt(n))

eval_unary_op(op, value) ==
    IF op = "Not"
    THEN IF value.tag = "Bool" THEN Ok(ValueBool(~value.bool))
         ELSE Err(InvalidOperation(
                "can not perform logical operations on non-boolean values"))
    ELSE IF is_float(value) THEN Ok(ValueFloat(FNeg(value.float)))
    ELSE IF is_int(value) THEN int_neg(value.int)
    ELSE Err(InvalidOperation("can not subtract non-numeric types"))

\* An evaluation outcome together with the number of Context::cell_value
\* calls it made.
EvalRes(out, calls) == [out |-> out, calls |-> calls]

RECURSIVE eval(_, _)
\* eval_binary: the left operand, then the right one, each with `?`.
eval_binary(expr, context) ==
    LET matched(left, right) ==
            IF right.out.tag # "Ok"
            THEN EvalRes(right.out, left.calls + right.calls)
            ELSE EvalRes(eval_binary_op(expr.op, left.out.value,
                                        right.out.value),
                         left.calls + right.calls)
        evaluated(left) ==
            IF left.out.tag # "Ok" THEN left
            ELSE matched(left, eval(expr.right, context))
    IN  evaluated(eval(expr.left, context))

eval_unary(expr, context) ==
    LET matched(value) ==
            IF value.out.tag # "Ok" THEN value
            ELSE EvalRes(eval_unary_op(expr.op, value.out.value), value.calls)
    IN  matched(eval(expr.expr, context))

eval_literal(expr, context) ==
    CASE expr.lit = "String" -> EvalRes(Ok(ValueString(expr.value)), 0)
      [] expr.lit = "Bool" -> EvalRes(Ok(ValueBool(expr.bool)), 0)
      [] expr.lit = "Number" -> EvalRes(eval_number(expr.value), 0)
      [] expr.lit = "CellRef" -> EvalRes(eval_cell_ref(context, expr.cell), 1)

eval(expr, context) ==
    CASE expr.kind = "Empty" -> EvalRes(Ok(ValueEmpty), 0)
      [] expr.kind = "Literal" -> eval_literal(expr, context)
      [] expr.kind = "Binary" -> eval_binary(expr, context)
      [] expr.kind = "Unary" -> eval_unary(expr, context)
      [] expr.kind = "Group" -> eval(expr.expr, context)

(***************************************************************************)
(* Desktop library: src/desktop/src-lib/src/fs.rs                          *)
(*                                                                         *)
(* A DirectoryTree is the record of its two Vecs.  A Directory is modelled *)
(* by its name; node i is directories[i + 1], and the parent of node i > 0 *)
(* is parents[i].                                                          *)
(***************************************************************************)
ROOT == 0

DirectoryTree(directories, parents) ==
    [directories |-> directories, parents |-> parents]

\* DirectoryTree::new
tree_new(root) == DirectoryTree(<<root>>, <<>>)

\* Vec::swap_remove at the 1-based position k: the last element takes the
\* place of the removed one.
swap_remove(s, k) ==
    IF k = Len(s) THEN SubSeq(s, 1, Len(s) - 1)
    ELSE [SubSeq(s, 1, Len(s) - 1) EXCEPT ![k] = s[Len(s)]]

\* <[T]>::swap at the 0-based indices i and j.
swap(s, i, j) == [s EXCEPT ![i + 1] = s[j + 1], ![j + 1] = s[i + 1]]

\* `for x in v.iter_mut() { if from == *x { *x = to } }`
repoint(s, from, to) == [k \in 1..Len(s) |-> IF s[k] = from THEN to ELSE s[k]]

\* DirectoryTree::children, on a parent that exists: the children in
\* ascending order.
children(t, parent) ==
    SelectSeq([k \in 1..Len(t.parents) |-> k],
              LAMBDA child : t.parents[child] = parent)

\* The `while let Some(child) = remaining_children.pop()` of descendants.
RECURSIVE descendants_loop(_, _, _)
descendants_loop(t, found, remaining_children) ==
    IF Len(remaining_children) = 0 THEN found
    ELSE LET child == remaining_children[Len(remaining_children)]
         IN  descendants_loop(
                 t, Append(found, child),
                 SubSeq(remaining_children, 1, Len(remaining_children) - 1)
                     \o children(t, child))

\* DirectoryTree::descendants: `root` first; empty when `root` does not exist.
descendants(t, root) ==
    IF root >= Len(t.directories) THEN <<>>
    ELSE descendants_loop(t, <<root>>, children(t, root))

\* `descendants.sort(); descendants.into_iter().rev()`
RECURSIVE sorted_rev(_)
sorted_rev(S) ==
    IF S = {} THEN <<>>
    ELSE LET max == CHOOSE x \in S : \A y \in S : y <= x
         IN  <<max>> \o sorted_rev(S \ {max})

\* DirectoryTree::insert
\* insert without the check of `parent`.
insert_unchecked(t, directory, parent) ==
    [self |-> DirectoryTree(Append(t.directories, directory),
                            Append(t.parents, parent)),
     out |-> Ok(Len(t.directories))]

insert(t, directory, parent) ==
    IF parent >= Len(t.directories) THEN [self |-> t, out |-> Err("()")]
    ELSE [self |-> DirectoryTree(Append(t.directories, directory),
                                 Append(t.parents, parent)),
          out |-> Ok(Len(t.directories))]

\* The `for descendant in descendants` of remove.  `st` holds self's two
\* Vecs and the locals directories, parents, parent_map and root_idx.
RECURSIVE remove_loop(_, _, _)
remove_loop(st, order, root) ==
    IF Len(order) = 0 THEN st
    ELSE LET descendant == order[1]
             directory == st.self_directories[descendant + 1]
             parent == st.self_parents[descendant]
             self_directories == swap_remove(st.self_directories, descendant + 1)
             self_parents == swap_remove(st.self_parents, descendant)
             at == Len(st.directories)
             swap_idx == Len(self_directories)
         IN  remove_loop(
                 [self_directories |-> self_directories,
                  self_parents |-> repoint(self_parents, swap_idx, descendant),
                  directories |-> Append(st.directories, directory),
                  parents |-> Append(st.parents, parent),
                  parent_map |-> Append(st.parent_map, <<parent, at>>),
                  root_idx |-> IF descendant = root THEN at ELSE st.root_idx],
                 Tail(order), root)

\* `for (from, to) in parent_map { ... }`
RECURSIVE apply_parent_map(_, _)
apply_parent_map(parents, parent_map) ==
    IF Len(parent_map) = 0 THEN parents
    ELSE apply_parent_map(repoint(parents, parent_map[1][1], parent_map[1][2]),
                          Tail(parent_map))

\* DirectoryTree::remove
remove(t, root) ==
    IF root = ROOT THEN [self |-> t, out |-> Err("GraphRoot")]
    ELSE IF root >= Len(t.directories)
    THEN [self |-> t, out |-> Err("InvalidRoot")]
    ELSE LET removed(st) ==
                 [self |-> DirectoryTree(st.self_directories, st.self_parents),
                  out |-> Ok(DirectoryTree(
                             swap(st.directories, 0, st.root_idx),
                             apply_parent_map(
                                 Tail(swap(st.parents, 0, st.root_idx)),
                                 st.parent_map)))]
         IN  removed(remove_loop(
                 [self_directories |-> t.directories,
                  self_parents |-> t.parents,
                  directories |-> <<>>, parents |-> <<>>,
                  parent_map |-> <<>>, root_idx |-> 0],
                 sorted_rev(Range(descendants(t, root))), root))

\* DirectoryTree::shift.  `self.parents[root - 1]` aborts for root = ROOT
\* (the subtraction underflows, or the index is out of bounds).
shift(t, root, parent) ==
    IF root >= Len(t.directories) THEN [self |-> t, out |-> Err("InvalidRoot")]
    ELSE IF parent >= Len(t.directories)
    THEN [self |-> t, out |-> Err("InvalidParent")]
    ELSE IF parent \in Range(descendants(t, root))
    THEN [self |-> t, out |-> Err("CanNotShiftToDescendant")]
    ELSE IF root = ROOT THEN [self |-> t, out |-> Panic]
    ELSE [self |-> DirectoryTree(t.directories,
                                 [t.parents EXCEPT ![root] = parent]),
          out |-> Ok(<<>>)]

(***************************************************************************)
(* Spreadsheet sizes: src/desktop/src/state.rs, src/desktop/src-lib/src/data.rs *)
(*                                                                         *)
(* A CellMap is modelled by the set of its keys, each a CellIndex record;  *)
(* the BTreeMap hands them out in ascending order, row first.              *)
(***************************************************************************)
CellIndex(row, col) == [row |-> row, col |-> col]

\* The derived Ord of CellIndex: by row, then by col.
cell_index_lt(a, b) == a.row < b.row \/ (a.row = b.row /\ a.col < b.col)

\* cells.keys()
RECURSIVE keys(_)
keys(map) ==
    IF map = {} THEN <<>>
    ELSE LET first == CHOOSE a \in map : \A b \in map \ {a} : cell_index_lt(a, b)
         IN  <<first>> \o keys(map \ {first})

\* `index + 1` on an IndexType (u16): at u16::MAX it aborts when overflow
\* checks are compiled in and wraps to 0 otherwise.
index_add_one(index) ==
    IF index < U16_MAX THEN Ok(index + 1)
    ELSE IF overflow_checks THEN Panic ELSE Ok(0)

\* The `for idx in cells.keys()` of with_fixed_values.
RECURSIVE size_fixed_loop(_, _, _)
size_fixed_loop(remaining, max_row, max_col) ==
    IF remaining = <<>> THEN Ok(<<max_row, max_col>>)
    ELSE LET idx == Head(remaining)
             row == IF idx.row > max_row THEN index_add_one(idx.row)
                    ELSE Ok(max_row)
             col == IF idx.col > max_col THEN index_add_one(idx.col)
                    ELSE Ok(max_col)
         IN  IF row.tag = "Panic" \/ col.tag = "Panic" THEN Panic
             ELSE size_fixed_loop(Tail(remaining), row.value, col.value)

\* The size_fixed of Spreadsheet::with_fixed_values(name, cells).
with_fixed_values(map) == size_fixed_loop(keys(map), 0, 0)

\* The `for idx in cells.keys()` of from_cells.
RECURSIVE from_cells_loop(_, _, _)
from_cells_loop(remaining, max_row, max_col) ==
    IF remaining = <<>> THEN <<max_row, max_col>>
    ELSE LET idx == Head(remaining)
         IN  from_cells_loop(Tail(remaining),
                             IF idx.row > max_row THEN idx.row ELSE max_row,
                             IF idx.col > max_col THEN idx.col ELSE max_col)

\* The size of the library's Spreadsheet::from_cells(cells).
from_cells(map) ==
    IF map = {} THEN Ok(<<0, 0>>)
    ELSE LET sized(max) ==
                 LET rows == index_add_one(max[1])
                     cols == index_add_one(max[2])
                 IN  IF rows.tag = "Panic" \/ cols.tag = "Panic" THEN Panic
                     ELSE Ok(<<rows.value, cols.value>>)
         IN  sized(from_cells_loop(keys(map), 0, 0))

(***************************************************************************)
(* Bounds and input sets                                                   *)
(***************************************************************************)
MaxRow == 3
MaxCol == 3
MaxLabelLen == 2
MaxRefLen == 4
MaxSrcLen == 3
MaxChainOps == 2
MaxWrap == 2
MaxRuns == 2
MaxRunLen == 4
MaxDirs == 4
MaxSheetIndex == 2
MaxCells == 3

RECURSIVE SeqsOfLen(_, _)
SeqsOfLen(S, n) ==
    IF n = 0 THEN {<<>>}
    ELSE {Append(t, c) : t \in SeqsOfLen(S, n - 1), c \in S}

SeqsUpTo(S, n) == UNION {SeqsOfLen(S, k) : k \in 0..n}

\* Constructible CellRef values: every sheet form, rows and columns at both
\* ends of IndexType and around the one- and two-letter column labels.
LabelChars == {"s", "S", "1", "!"}
Labels == SeqsUpTo(LabelChars, MaxLabelLen)
SheetRefs ==
    {SheetRelative}
        \cup {SheetIndexOf(n) : n \in {0, 1, 12, U16_MAX}}
        \cup {SheetLabelOf(l) : l \in Labels}
Rows == (0..MaxRow) \cup {8, 9, 98, 99, U16_MAX - 1, U16_MAX}
Cols == (0..MaxCol) \cup {25, 26, 51, 52, 700, 701, 702, U16_MAX}
CellRefs ==
    {CellRef(sh, r, c, cm, rm) :
        sh \in SheetRefs, r \in Rows, c \in Cols, cm \in RefMode, rm \in RefMode}

\* Reference texts handed to CellRef::from_str.
RefChars == {"a", "A", "s", "S", "1", "0", "$", "!"}
RefTexts == SeqsUpTo(RefChars, MaxRefLen)

\* The texts that differ from t at most in the case of their letters.
RECURSIVE CaseVariants(_)
CaseVariants(t) ==
    IF Len(t) = 0 THEN {<<>>}
    ELSE {<<c>> \o rest :
            c \in {to_ascii_lowercase(t[1]), to_ascii_uppercase(t[1])},
            rest \in CaseVariants(Tail(t))}

\* Column indices handed to index_to_col: every index a one- or two-letter
\* label stands for, the first ones past `ZZ`, and the last IndexType.
MaxIndex == 703
Indices == (0..MaxIndex) \cup {U16_MAX}

\* Formula texts handed to the entry points.
SrcChars == {"1", ".", "'", "$", "A", "f", "+", "-", "(", ")", "#", " "}
Srcs == SeqsUpTo(SrcChars, MaxSrcLen)

CellA1 == CellRef(SheetRelative, 0, 0, Relative, Relative)
CellB1 == CellRef(SheetRelative, 0, 1, Relative, Relative)
CtxEmpty == [r \in {} |-> Idle]

\* Operator chains `a p b q c ...` of one to MaxChainOps binary operators.
OperandTexts == {<<"1">>, <<"2">>, <<"3">>, <<"4">>}
OperatorTexts ==
    {<<"+">>, <<"-">>, <<"*">>, <<"/">>, <<"%">>, <<"*", "*">>, <<"=", "=">>,
     <<"!", "=">>, <<"<">>, <<"<", "=">>, <<">">>, <<">", "=">>}
RECURSIVE Chains(_)
Chains(n) ==
    IF n = 0 THEN OperandTexts
    ELSE {c \o p \o a : c \in Chains(n - 1), p \in OperatorTexts,
                        a \in OperandTexts}
ChainSrcs(max) == UNION {Chains(n) : n \in 1..max}

\* Operands written after a prefix `-`, each with the expression it parses
\* to on its own; `folded` marks the number literals.
MinusOperand(text_, folded, expr) ==
    [text |-> text_, folded |-> folded, expr |-> expr]
MinusOperands ==
    {MinusOperand(<<"1">>, TRUE, LitNumber(<<"1">>)),
     MinusOperand(<<"2", ".", "5">>, TRUE, LitNumber(<<"2", ".", "5">>)),
     MinusOperand(<<"A", "1">>, FALSE, LitCellRef(CellA1)),
     MinusOperand(<<"(", "1", ")">>, FALSE, ExprGroup(LitNumber(<<"1">>))),
     MinusOperand(<<"(", ")">>, FALSE, ExprGroup(ExprEmpty)),
     MinusOperand(<<"-", "1">>, FALSE, LitNumber(<<"-", "1">>)),
     MinusOperand(<<"-", "A", "1">>, FALSE,
                  ExprUnary("Minus", LitCellRef(CellA1))),
     MinusOperand(<<"!", "A", "1">>, FALSE,
                  ExprUnary("Not", LitCellRef(CellA1))),
     MinusOperand(<<"'", "s", "'">>, FALSE, LitString(<<"s">>)),
     MinusOperand(<<"t", "r", "u", "e">>, FALSE, LitBool(TRUE))}
PlainOperands ==
    {MinusOperand(<<"1">>, FALSE, LitNumber(<<"1">>)),
     MinusOperand(<<"A", "1">>, FALSE, LitCellRef(CellA1))}

\* The binary operators as written and as OpBinary.
BinaryOperator(text_, op) == [text |-> text_, op |-> op]
BinaryOperators ==
    {BinaryOperator(<<"+">>, "Add"), BinaryOperator(<<"-">>, "Subtract"),
     BinaryOperator(<<"*">>, "Multiply"), BinaryOperator(<<"/">>, "Divide"),
     BinaryOperator(<<"%">>, "Remainder"), BinaryOperator(<<"*", "*">>, "Exp"),
     BinaryOperator(<<"=", "=">>, "Equal"),
     BinaryOperator(<<"!", "=">>, "NotEqual"),
     BinaryOperator(<<"<">>, "Less"), BinaryOperator(<<"<", "=">>, "LessEqual"),
     BinaryOperator(<<">">>, "Greater"),
     BinaryOperator(<<">", "=">>, "GreaterEqual")}

\* `-o`, `-o p r` and `l p -o`.
Negated(o) == <<"-">> \o o.text
NegatedLeft(o, p, r) == Negated(o) \o <<" ">> \o p.text \o <<" ">> \o r.text
NegatedRight(l, p, o) == l.text \o <<" ">> \o p.text \o <<" ">> \o Negated(o)
UnarySrcs ==
    {Negated(o) : o \in MinusOperands}
        \cup {NegatedLeft(o, p, r) :
                o \in MinusOperands, p \in BinaryOperators, r \in PlainOperands}
        \cup {NegatedRight(l, p, o) :
                l \in PlainOperands, p \in BinaryOperators, o \in MinusOperands}

\* Formula texts of one to n runs, well-formed and malformed, written with or
\* without a space in between.
RunTexts ==
    {<<"1">>, <<"1", ".">>, <<"1", ".", "2">>, <<"1", ".", ".", "2">>,
     <<"'", "a", "'">>, <<"'", "a">>, <<"\"">>,
     <<"$", "A", "1">>, <<"$", "A">>, <<"$">>, <<"A", "1">>, <<"f">>,
     <<"+">>, <<"*">>, <<"*", "*">>, <<"!", "=">>, <<"<">>, <<"#">>,
     <<"A", "9", "9", "9", "9", "9">>}
RECURSIVE RunSrcs(_)
RunSrcs(n) ==
    IF n = 1 THEN RunTexts
    ELSE LET shorter == RunSrcs(n - 1)
         IN  shorter \cup {t \o sep \o r :
                             t \in shorter, sep \in {<<>>, <<" ">>},
                             r \in RunTexts}

\* `x op y` and `xopy`: cell references and identifiers around a binary
\* operator, with and without spaces.
NamedOperand(text_, token) == [text |-> text_, token |-> token]
NamedOperands ==
    {NamedOperand(<<"A", "1">>, TokenCellRef(CellA1)),
     NamedOperand(<<"B", "1">>, TokenCellRef(CellB1)),
     NamedOperand(<<"f">>, TokenIdentifier(<<"f">>)),
     NamedOperand(<<"a", "b">>, TokenIdentifier(<<"a", "b">>))}
Around(x, p, y, sep) == x.text \o sep \o p.text \o sep \o y.text
SpacingSrcs ==
    {Around(x, p, y, sep) :
        x \in NamedOperands, p \in BinaryOperators, y \in NamedOperands,
        sep \in {<<>>, <<" ">>}}

\* Runs that start with `$`: the sigil followed by up to n cell reference
\* characters.
SigilChars == {"$", "A", "s", "1", "!"}
SigilRuns(n) == {<<"$">> \o t : t \in SeqsUpTo(SigilChars, n)}

\* A run behind one of the texts `befores` and in front of one of the texts
\* `behinds`.
Framed(befores, runs, behinds) ==
    {before \o run \o behind :
        before \in befores, run \in runs, behind \in behinds}
SigilSrcs(n) ==
    Framed({<<>>, <<"1", "+">>, <<"1", " ">>}, SigilRuns(n),
           {<<>>, <<"+", "1">>})

\* Strings, closed or not, behind tokens of every width.
StringChars == {"a", " ", "'", "\""}
StringRuns(n) ==
    {<<quote>> \o t : quote \in {"'", "\""}, t \in SeqsUpTo(StringChars, n)}
StringSrcs(n) ==
    Framed({<<>>, <<" ">>, <<"1", "+">>, <<"1", " ">>, <<"*">>, <<"*", " ">>,
            <<"<", "=">>, <<"A", "1">>, <<"A", "1", "*", "2", " ">>},
           StringRuns(n), {<<>>})

\* Runs that start with a letter: keyword spellings in either case, keyword
\* spellings that are also references, references, identifiers, and a
\* reference whose row does not fit IndexType.
WordRuns ==
    UNION {CaseVariants(t) : t \in {<<"o", "r">>, <<"a", "n", "d">>,
                                    <<"s", "u", "m">>, <<"t", "r", "u", "e">>,
                                    <<"o", "r", "1">>, <<"f", "o">>}}
        \cup {<<"f", "a", "l", "s", "e">>, <<"F", "a", "l", "s", "e">>,
              <<"s", "u", "m", "1">>, <<"a", "n", "d", "1">>,
              <<"t", "r", "u", "e", "1">>, <<"o", "r", "$", "1">>,
              <<"o", "r", "x">>, <<"o", "r", "_">>, <<"o", "_", "r">>,
              <<"o", "r", "!">>, <<"o", "r", "!", "a", "1">>,
              <<"a", "n", "d", "!", "1">>, <<"a", "1">>, <<"Z", "z", "9">>,
              <<"f">>, <<"a", "1", "a">>, <<"A", "0">>,
              <<"A", "9", "9", "9", "9", "9">>}
WordBefores == {<<>>, <<"1">>, <<"1", "+">>, <<"1", " ">>, <<"(">>}
WordBehinds == {<<>>, <<"+", "1">>, <<" ", "1">>, <<")">>}
WordSrcs == Framed(WordBefores, WordRuns, WordBehinds)

\* The cell reference A1 under up to n enclosing nodes: unary, group, and
\* binary on either side of the cell reference B1.
BinaryOps == {p.op : p \in BinaryOperators}
Wrap(e) ==
    {ExprUnary("Minus", e), ExprUnary("Not", e), ExprGroup(e)}
        \cup {ExprBinary(op, e, LitCellRef(CellB1)) : op \in BinaryOps}
        \cup {ExprBinary(op, LitCellRef(CellB1), e) : op \in BinaryOps}
RECURSIVE Wrapped(_)
Wrapped(n) ==
    IF n = 0 THEN {LitCellRef(CellA1)}
    ELSE LET inner == Wrapped(n - 1)
         IN  inner \cup UNION {Wrap(e) : e \in inner}

\* What a Context answers for A1: a value, or an error stored in the cell;
\* or it does not have the cell.
StoredErrors ==
    {Div0, InvalidNumber, Overflow, InvalidOperation("stored"),
     InvalidCellRef(CellB1)}
Answers ==
    {Ok(ValueInt(2)), Ok(ValueFloat(Fin(1, 2))), Ok(ValueBool(TRUE)),
     Ok(ValueString(<<"a">>)), Ok(ValueEmpty)}
        \cup {Err(CellRefValueError(e)) : e \in StoredErrors}
Contexts ==
    {[r \in {CellB1} |-> Ok(ValueInt(1))]}
        \cup {[r \in {CellA1, CellB1} |->
                 IF r = CellA1 THEN a ELSE Ok(ValueInt(1))] : a \in Answers}

\* Values a Context hands to the evaluator.
Ints == I64_MIN..I64_MAX
Floats ==
    {Fin(-2, 1), Fin(-1, 2), FNegZero, FZero, Fin(1, 2), Fin(1, 1), Fin(3, 2),
     Fin(2, 1), FInf, FNegInf, FNan}
OtherValues ==
    {ValueEmpty, ValueString(<<"a">>), ValueBool(TRUE), ValueDateTime(0),
     ValueDuration(0)}
Values ==
    {ValueInt(n) : n \in Ints} \cup {ValueFloat(f) : f \in Floats}
        \cup OtherValues
\* Operands of a comparison: the values of the arithmetic, and a second value
\* of each kind that is not a number.
ComparisonOps ==
    {"Equal", "NotEqual", "Greater", "GreaterEqual", "Less", "LessEqual"}
ComparedValues ==
    Values \cup {ValueString(<<>>), ValueString(<<"b">>), ValueBool(FALSE),
                 ValueDateTime(1), ValueDuration(1)}

ArithmeticOps == {"Add", "Subtract", "Multiply", "Divide", "Remainder", "Exp"}


(***************************************************************************)
(* Address model: format a CellRef, parse a reference text                 *)
(***************************************************************************)
\* The desktop state, which the operations of the formula core leave alone.
InitIdleDesk == tree = Idle /\ call = Idle /\ cells = Idle /\ sizes = Idle

InitAddr ==
    /\ overflow_checks \in BOOLEAN
    /\ entry = "from_str"
    /\ \/ /\ pc = "fmt"
          /\ cell \in CellRefs
          /\ text = Idle
       \/ /\ pc = "from_str"
          /\ cell = Idle
          /\ text \in {Ok(t) : t \in RefTexts}
    /\ parsed = Idle
    /\ colIdx = Idle /\ colLabel = Idle /\ colText = Idle /\ colIndex = Idle
    /\ src = <<>> /\ lex = Idle /\ ast = Idle /\ ctx = CtxEmpty
    /\ result = Idle /\ parserRuns = 0 /\ ctxCalls = 0
    /\ InitIdleDesk

\* format!("{cell}")
Display ==
    /\ pc = "fmt"
    /\ text' = fmt(cell)
    /\ IF fmt(cell).tag = "Panic"
       THEN pc' = "done" /\ parsed' = Panic
       ELSE pc' = "from_str" /\ parsed' = parsed
    /\ UNCHANGED <<deskVars, entry, overflow_checks, codecVars, cell, exprVars>>

\* CellRef::from_str(text)
FromStr ==
    /\ pc = "from_str"
    /\ parsed' = from_str(text.value)
    /\ pc' = "done"
    /\ UNCHANGED <<deskVars, entry, overflow_checks, codecVars, cell, text, exprVars>>

NextAddr == Display \/ FromStr

SpecAddr == InitAddr /\ [][NextAddr]_vars

(***************************************************************************)
(* Column codec: index_to_col, then col_to_index on a spelling of the label *)
(***************************************************************************)
InitCodec ==
    /\ overflow_checks = TRUE
    /\ entry = "col_to_index"
    /\ pc = "index_to_col"
    /\ colIdx \in Indices
    /\ colLabel = Idle /\ colText = Idle /\ colIndex = Idle
    /\ cell = Idle /\ text = Idle /\ parsed = Idle
    /\ src = <<>> /\ lex = Idle /\ ast = Idle /\ ctx = CtxEmpty
    /\ result = Idle /\ parserRuns = 0 /\ ctxCalls = 0
    /\ InitIdleDesk

\* utils::index_to_col(idx)
IndexToCol ==
    /\ pc = "index_to_col"
    /\ colLabel' = index_to_col(colIdx)
    /\ pc' = IF index_to_col(colIdx).tag = "Panic" THEN "done"
             ELSE "col_to_index"
    /\ UNCHANGED <<deskVars, entry, overflow_checks, addrVars, colIdx, colText,
                   colIndex, exprVars>>

\* utils::col_to_index(col), col the label in upper, lower or mixed case.
ColToIndex ==
    /\ pc = "col_to_index"
    /\ \E cased \in CaseVariants(colLabel.value) :
          /\ colText' = cased
          /\ colIndex' = col_to_index(cased)
    /\ pc' = "done"
    /\ UNCHANGED <<deskVars, entry, overflow_checks, addrVars, colIdx, colLabel,
                   exprVars>>

NextCodec == IndexToCol \/ ColToIndex

SpecCodec == InitCodec /\ [][NextCodec]_vars

(***************************************************************************)
(* Entry points: src/core/src/expr/mod.rs                                  *)
(***************************************************************************)
\* Mutation of surfaced_error: surfaces the last lexical error recorded.
surfaced_error_last(errors) == errors[Len(errors)].value

\* `lex.errors[0].value`: the lexical error the entry points surface.
surfaced_error(errors) == errors[1].value

\* lex::tokenize(input) and the `if !lex.errors.is_empty()` return.
Tokenize ==
    /\ pc = "tokenize"
    /\ LET lexed(l) ==
               /\ lex' = l
               /\ IF l.tag = "Panic"
                  THEN pc' = "done" /\ result' = Panic
                  ELSE IF Len(l.errors) > 0
                  THEN /\ pc' = "done"
                       /\ result' = Err(ErrorTokenize(surfaced_error(l.errors)))
                  ELSE pc' = "parse" /\ result' = result
       IN  lexed(tokenize(src))
    /\ UNCHANGED <<deskVars, entry, overflow_checks, codecVars, addrVars, src,
                   ast, ctx, parserRuns, ctxCalls>>

\* parse::parse(&lex.tokens).map_err(|err| Error::Parse(err.value))?
Parse ==
    /\ pc = "parse"
    /\ parserRuns' = parserRuns + 1
    /\ LET parsed_as(a) ==
               /\ ast' = a
               /\ CASE a.tag = "Panic" -> pc' = "done" /\ result' = Panic
                    [] a.tag = "Err" ->
                           /\ pc' = "done"
                           /\ result' = Err(ErrorParse(a.error.value))
                    [] a.tag = "Ok" ->
                           IF entry = "parse"
                           THEN pc' = "done" /\ result' = Ok(<<>>)
                           ELSE pc' = "evaluate" /\ result' = result
       IN  parsed_as(parse(lex.tokens))
    /\ UNCHANGED <<deskVars, entry, overflow_checks, codecVars, addrVars, src,
                   lex, ctx, ctxCalls>>

\* eval::eval(ast, ctx)
Evaluate ==
    /\ pc = "evaluate"
    /\ LET evaluated(r) ==
               /\ result' = r.out
               /\ ctxCalls' = ctxCalls + r.calls
       IN  evaluated(eval(ast.expr, ctx))
    /\ pc' = "done"
    /\ UNCHANGED <<deskVars, entry, overflow_checks, codecVars, addrVars, src,
                   lex, ast, ctx, parserRuns>>

InitIdleCodec ==
    colIdx = Idle /\ colLabel = Idle /\ colText = Idle /\ colIndex = Idle

InitIdleAddr == cell = Idle /\ text = Idle /\ parsed = Idle

\* parse(input) / eval(input, ctx) on a formula text.
InitExpr ==
    /\ overflow_checks \in BOOLEAN
    /\ entry \in {"parse", "eval"}
    /\ pc = "tokenize"
    /\ src \in Srcs
    /\ ctx \in {CtxEmpty, [r \in {CellA1} |-> Ok(ValueInt(1))]}
    /\ lex = Idle /\ ast = Idle /\ result = Idle
    /\ parserRuns = 0 /\ ctxCalls = 0
    /\ InitIdleAddr
    /\ InitIdleCodec
    /\ InitIdleDesk

NextExpr == Tokenize \/ Parse \/ Evaluate

SpecExpr == InitExpr /\ [][NextExpr]_vars

\* eval(input, ctx) on a chain of binary operators.
InitChain ==
    /\ overflow_checks = TRUE
    /\ entry = "eval"
    /\ pc = "tokenize"
    /\ src \in ChainSrcs(MaxChainOps)
    /\ ctx = CtxEmpty
    /\ lex = Idle /\ ast = Idle /\ result = Idle
    /\ parserRuns = 0 /\ ctxCalls = 0
    /\ InitIdleAddr
    /\ InitIdleCodec
    /\ InitIdleDesk

SpecChain == InitChain /\ [][NextExpr]_vars

\* parse(input) / eval(input, ctx) on a formula with a prefix `-`.
InitUnary ==
    /\ overflow_checks = TRUE
    /\ entry \in {"parse", "eval"}
    /\ pc = "tokenize"
    /\ src \in UnarySrcs
    /\ ctx = [r \in {CellA1} |-> Ok(ValueInt(1))]
    /\ lex = Idle /\ ast = Idle /\ result = Idle
    /\ parserRuns = 0 /\ ctxCalls = 0
    /\ InitIdleAddr
    /\ InitIdleCodec
    /\ InitIdleDesk

SpecUnary == InitUnary /\ [][NextExpr]_vars

\* parse(input) / eval(input, ctx) on a formula of well-formed and malformed
\* runs.
InitScan ==
    /\ overflow_checks = TRUE
    /\ entry \in {"parse", "eval"}
    /\ pc = "tokenize"
    /\ src \in RunSrcs(MaxRuns)
    /\ ctx = [r \in {CellA1} |-> Ok(ValueInt(1))]
    /\ lex = Idle /\ ast = Idle /\ result = Idle
    /\ parserRuns = 0 /\ ctxCalls = 0
    /\ InitIdleAddr
    /\ InitIdleCodec
    /\ InitIdleDesk

SpecScan == InitScan /\ [][NextExpr]_vars

\* parse(input) / eval(input, ctx) on `x op y`, written with and without
\* spaces.
InitSpacing ==
    /\ overflow_checks = TRUE
    /\ entry \in {"parse", "eval"}
    /\ pc = "tokenize"
    /\ src \in SpacingSrcs
    /\ ctx = [r \in {CellA1, CellB1} |-> Ok(ValueInt(1))]
    /\ lex = Idle /\ ast = Idle /\ result = Idle
    /\ parserRuns = 0 /\ ctxCalls = 0
    /\ InitIdleAddr
    /\ InitIdleCodec
    /\ InitIdleDesk

SpecSpacing == InitSpacing /\ [][NextExpr]_vars

\* parse(input) / eval(input, ctx) on a formula around one run of the lexer.
InitLex ==
    /\ overflow_checks = TRUE
    /\ entry \in {"parse", "eval"}
    /\ pc = "tokenize"
    /\ src \in SigilSrcs(MaxRunLen) \cup StringSrcs(MaxRunLen) \cup WordSrcs
    /\ ctx = [r \in {CellA1} |-> Ok(ValueInt(1))]
    /\ lex = Idle /\ ast = Idle /\ result = Idle
    /\ parserRuns = 0 /\ ctxCalls = 0
    /\ InitIdleAddr
    /\ InitIdleCodec
    /\ InitIdleDesk

SpecLex == InitLex /\ [][NextExpr]_vars

\* eval::eval on `A1 op B1`, the operands supplied by the Context.
InitArith ==
    /\ overflow_checks = TRUE
    /\ entry = "eval"
    /\ pc = "evaluate"
    /\ src = <<>> /\ lex = Idle
    /\ \E op \in ArithmeticOps :
          ast = POk(ExprBinary(op, LitCellRef(CellA1), LitCellRef(CellB1)), 0)
    /\ \E left \in Values, right \in Values :
          ctx = [r \in {CellA1, CellB1} |->
                    IF r = CellA1 THEN Ok(left) ELSE Ok(right)]
    /\ result = Idle
    /\ parserRuns = 0 /\ ctxCalls = 0
    /\ InitIdleAddr
    /\ InitIdleCodec
    /\ InitIdleDesk

NextArith == Evaluate

SpecArith == InitArith /\ [][NextArith]_vars

\* eval::eval on `A1 op B1` for the comparison operators.
InitCompare ==
    /\ overflow_checks = TRUE
    /\ entry = "eval"
    /\ pc = "evaluate"
    /\ src = <<>> /\ lex = Idle
    /\ \E op \in ComparisonOps :
          ast = POk(ExprBinary(op, LitCellRef(CellA1), LitCellRef(CellB1)), 0)
    /\ \E left \in ComparedValues, right \in ComparedValues :
          ctx = [r \in {CellA1, CellB1} |->
                    IF r = CellA1 THEN Ok(left) ELSE Ok(right)]
    /\ result = Idle
    /\ parserRuns = 0 /\ ctxCalls = 0
    /\ InitIdleAddr
    /\ InitIdleCodec
    /\ InitIdleDesk

SpecCompare == InitCompare /\ [][NextArith]_vars

\* eval::eval on `-A1`, `-(A1)` and `--A1`, in either build profile.
InitNegate ==
    /\ overflow_checks \in BOOLEAN
    /\ entry = "eval"
    /\ pc = "evaluate"
    /\ src = <<>> /\ lex = Idle
    /\ \E e \in {LitCellRef(CellA1), ExprGroup(LitCellRef(CellA1)),
                 ExprUnary("Minus", LitCellRef(CellA1))} :
          ast = POk(ExprUnary("Minus", e), 0)
    /\ \E value \in Values : ctx = [r \in {CellA1} |-> Ok(value)]
    /\ result = Idle
    /\ parserRuns = 0 /\ ctxCalls = 0
    /\ InitIdleAddr
    /\ InitIdleCodec
    /\ InitIdleDesk

SpecNegate == InitNegate /\ [][NextArith]_vars

\* eval::eval on an expression around the cell reference A1.
InitCtx ==
    /\ overflow_checks = TRUE
    /\ entry = "eval"
    /\ pc = "evaluate"
    /\ src = <<>> /\ lex = Idle
    /\ \E e \in Wrapped(MaxWrap) : ast = POk(e, 0)
    /\ ctx \in Contexts
    /\ result = Idle
    /\ parserRuns = 0 /\ ctxCalls = 0
    /\ InitIdleAddr
    /\ InitIdleCodec
    /\ InitIdleDesk

SpecCtx == InitCtx /\ [][NextArith]_vars

(***************************************************************************)
(* Desktop library: calls on one DirectoryTree                             *)
(***************************************************************************)
\* The name of the next Directory: the least number no directory of the
\* tree is named.
FreshName(t) ==
    CHOOSE n \in 0..Len(t.directories) :
        /\ n \notin Range(t.directories)
        /\ \A m \in 0..(n - 1) : m \in Range(t.directories)

\* A call, the tree it was made on, and what it returned.
Call(op, directory, root, parent, before, out) ==
    [op |-> op, directory |-> directory, root |-> root, parent |-> parent,
     before |-> before, out |-> out]

\* DirectoryTree::new(root)
InitTree ==
    /\ overflow_checks = TRUE
    /\ entry = "directory_tree"
    /\ pc = "directory_tree"
    /\ tree = tree_new(0)
    /\ call = Idle
    /\ cells = Idle /\ sizes = Idle
    /\ src = <<>> /\ lex = Idle /\ ast = Idle /\ ctx = CtxEmpty
    /\ result = Idle /\ parserRuns = 0 /\ ctxCalls = 0
    /\ InitIdleAddr
    /\ InitIdleCodec

\* tree.insert(directory, parent), with a parent that exists or the first
\* index that does not.
Insert ==
    /\ pc = "directory_tree"
    /\ \E parent \in 0..Len(tree.directories) :
          /\ parent < Len(tree.directories) => Len(tree.directories) < MaxDirs
          /\ LET returned(r) ==
                     /\ tree' = r.self
                     /\ call' = Call("insert", FreshName(tree), None, parent,
                                     tree, r.out)
             IN  returned(insert(tree, FreshName(tree), parent))
    /\ UNCHANGED <<pc, entry, overflow_checks, addrVars, codecVars, exprVars,
                   cells, sizes>>

\* tree.remove(root)
Remove ==
    /\ pc = "directory_tree"
    /\ \E root \in 0..Len(tree.directories) :
          LET returned(r) ==
                  /\ tree' = r.self
                  /\ call' = Call("remove", None, root, None, tree, r.out)
          IN  returned(remove(tree, root))
    /\ UNCHANGED <<pc, entry, overflow_checks, addrVars, codecVars, exprVars,
                   cells, sizes>>

\* tree.shift(root, parent)
Shift ==
    /\ pc = "directory_tree"
    /\ \E root \in 0..Len(tree.directories),
          parent \in 0..Len(tree.directories) :
          LET returned(r) ==
                  /\ tree' = r.self
                  /\ call' = Call("shift", None, root, parent, tree, r.out)
          IN  returned(shift(tree, root, parent))
    /\ UNCHANGED <<pc, entry, overflow_checks, addrVars, codecVars, exprVars,
                   cells, sizes>>

NextTree == Insert \/ Remove \/ Shift

SpecTree == InitTree /\ [][NextTree]_vars

(***************************************************************************)
(* Spreadsheet sizes: the library loads a sheet, the desktop state wraps it *)
(***************************************************************************)
\* The row and column indices of the cells: the least ones and u16::MAX.
SheetIndices == 0..MaxSheetIndex \cup {U16_MAX}

\* The cell maps of up to n cells.
RECURSIVE CellMaps(_)
CellMaps(n) ==
    IF n = 0 THEN {{}}
    ELSE LET smaller(maps) ==
                 maps \cup {map \cup {CellIndex(row, col)} :
                            map \in maps, row \in SheetIndices, col \in SheetIndices}
         IN  smaller(CellMaps(n - 1))

InitSheet ==
    /\ overflow_checks \in BOOLEAN
    /\ entry = "spreadsheet"
    /\ pc = "from_cells"
    /\ cells \in CellMaps(MaxCells)
    /\ sizes = Idle
    /\ tree = Idle /\ call = Idle
    /\ src = <<>> /\ lex = Idle /\ ast = Idle /\ ctx = CtxEmpty
    /\ result = Idle /\ parserRuns = 0 /\ ctxCalls = 0
    /\ InitIdleAddr
    /\ InitIdleCodec

\* lib::data::Spreadsheet::from_cells(cells)
FromCells ==
    /\ pc = "from_cells"
    /\ sizes' = [size |-> from_cells(cells), size_fixed |-> Idle]
    /\ pc' = IF from_cells(cells).tag = "Panic" THEN "aborted"
             ELSE "with_fixed_values"
    /\ UNCHANGED <<entry, overflow_checks, addrVars, codecVars, exprVars,
                   tree, call, cells>>

\* state::Spreadsheet::with_fixed_values(name, sheet.cells().clone())
WithFixedValues ==
    /\ pc = "with_fixed_values"
    /\ sizes' = [sizes EXCEPT !.size_fixed = with_fixed_values(cells)]
    /\ pc' = IF with_fixed_values(cells).tag = "Panic" THEN "aborted"
             ELSE "done"
    /\ UNCHANGED <<entry, overflow_checks, addrVars, codecVars, exprVars,
                   tree, call, cells>>

NextSheet == FromCells \/ WithFixedValues

SpecSheet == InitSheet /\ [][NextSheet]_vars

Spec == SpecExpr

(***************************************************************************)
(* Properties                                                              *)
(***************************************************************************)
\* The operator chain `a p b q c` as the lexer delivers it: five tokens, the
\* second and fourth binary operators.
IsTwoOpChain ==
    /\ lex # Idle
    /\ Len(lex.tokens) = 5
    /\ lex.tokens[2].value.kind \in BinaryTokens
    /\ lex.tokens[4].value.kind \in BinaryTokens

ChainOperand(i) == LitNumber(lex.tokens[i].value.value)
ChainOp(i) == op_binary_from_token(lex.tokens[i].value.kind).value
ChainPrecedence(i) == PrecedenceOf(lex.tokens[i].value.kind).value

\* Binary(q, Binary(p, a, b), c) for the chain `a p b q c`.
LeftNested ==
    ExprBinary(ChainOp(4),
               ExprBinary(ChainOp(2), ChainOperand(1), ChainOperand(3)),
               ChainOperand(5))

\* C1: for binary operators p and q with precedence(p) > precedence(q), the
\* tokens `a p b q c` parse to Binary(q, Binary(p, a, b), c); `2 * 3 + 4`
\* parses as `(2 * 3) + 4` and evaluates to Int(10).
C1_PrecedenceNesting ==
    /\ (IsTwoOpChain /\ ast # Idle /\ ChainPrecedence(2) > ChainPrecedence(4))
          => (ast.tag = "Ok" /\ ast.expr = LeftNested)
    /\ (pc = "done" /\ src = <<"2", "*", "3", "+", "4">>)
          => result = Ok(ValueInt(10))

\* C2: binary operators p, q of the same precedence level associate to the
\* left: `a p b q c` parses to Binary(q, Binary(p, a, b), c); `1 - 2 - 3`
\* parses as `(1 - 2) - 3` and evaluates to Int(-4).
C2_LeftAssociative ==
    /\ (IsTwoOpChain /\ ast # Idle /\ ChainPrecedence(2) = ChainPrecedence(4))
          => (ast.tag = "Ok" /\ ast.expr = LeftNested)
    /\ (pc = "done" /\ src = <<"1", "-", "2", "-", "3">>)
          => result = Ok(ValueInt(-4))

\* C3: formatting then parsing is the identity: for every constructible
\* CellRef r, CellRef::from_str(format(r)) == Some(r).
C3_RoundTrip == (pc = "done" /\ cell # Idle) => parsed = Some(cell)

\* The operands and the operator of the evaluated expression `A1 op B1`.
Operator == ast.expr.op
Left == ctx[CellA1].value
Right == ctx[CellB1].value
IntOperands == is_int(Left) /\ is_int(Right)
FloatOperand ==
    /\ is_number(Left) /\ is_number(Right)
    /\ (is_float(Left) \/ is_float(Right))
IsIntResult == result.tag = "Ok" /\ is_int(result.value)
IsFloatResult == result.tag = "Ok" /\ is_float(result.value)

\* C4: `a / b` with Int a and Int b == 0 completes with Err(Error::Overflow);
\* the evaluation does not abort.
C4_DivideByZeroIsOverflow ==
    (pc = "done" /\ Operator = "Divide" /\ IntOperands /\ Right.int = 0)
        => result = Err(Overflow)

\* Tokens the parser accepts at prefix position.
IsPrefixToken(token) ==
    \/ token.kind \in {"String", "Number", "CellRef", "Bang", "Minus",
                       "ParenLeft"}
    \/ token.kind = "Keyword" /\ token.word \in {"True", "False"}

IsPrefixError(kind) == kind.kind \in {"InvalidPrefix", "UnexpectedToken"}

\* C5: a first token other than a string, number or cell-reference literal,
\* `!`, `-`, `(`, `true` or `false` makes the parser return Err(InvalidPrefix)
\* or Err(UnexpectedToken); an unrecognised character is lexed as
\* Token::Unknown without a lexical error and is then such a parse error, and
\* so is a free identifier.
C5_InvalidPrefixIsParseError ==
    /\ (lex # Idle /\ src = <<"#">>)
          => lex = Lex(<<WithSpan(TokenUnknown("#"), 0, 1)>>, <<>>)
    /\ (ast # Idle /\ Len(lex.tokens) > 0 /\ ~IsPrefixToken(lex.tokens[1].value))
          => (ast.tag = "Err" /\ IsPrefixError(ast.error.value))

\* The lexical error that comes first in the source text.
IsFirstInSource(errors, i) ==
    \A j \in (1..Len(errors)) \ {i} : errors[i].span.start < errors[j].span.start

\* C6: the entry points fail fast, phase by phase.  With a lexical error the
\* result is Err(Tokenize(k)), k the first lexical error in source order, the
\* parser is never run and the Context never called; otherwise a parse error
\* is returned as Err(Parse(kind)) with the Context never called (a parser
\* that aborts stops there as well); only otherwise is the expression
\* evaluated.
C6_FailFast ==
    /\ (parserRuns > 0 \/ ast # Idle) => (lex # Idle /\ Len(lex.errors) = 0)
    /\ ctxCalls > 0 => (ast # Idle /\ ast.tag = "Ok" /\ entry = "eval")
    /\ pc = "done" =>
          IF Len(lex.errors) > 0
          THEN /\ \E i \in 1..Len(lex.errors) :
                     /\ IsFirstInSource(lex.errors, i)
                     /\ result = Err(ErrorTokenize(lex.errors[i].value))
               /\ parserRuns = 0 /\ ast = Idle /\ ctxCalls = 0
          ELSE IF ast.tag = "Err"
          THEN result = Err(ErrorParse(ast.error.value)) /\ ctxCalls = 0
          ELSE IF ast.tag = "Panic"
          THEN result = Panic /\ ctxCalls = 0
          ELSE IF entry = "parse"
          THEN result = Ok(<<>>) /\ ctxCalls = 0
          ELSE result = eval(ast.expr, ctx).out

\* C6 happens: two lexical errors of different kinds were recorded and the
\* first one is the result.
C6_Witness ==
    /\ pc = "done"
    /\ Len(lex.errors) >= 2
    /\ lex.errors[1].value # lex.errors[2].value
    /\ result = Err(ErrorTokenize(lex.errors[1].value))
    /\ parserRuns = 0

\* a / b is exact: some integer q has q * b = a.
Divides(b, a) == \E q \in (2 * I64_MIN)..(2 * I64_MAX + 2) : q * b = a

\* C7 as written: `Int op Int` is an Int unless the operation overflows or,
\* for `/`, the division is inexact; with a Float operand the result is a
\* Float.  Evaluations that abort are left out of the statement.
C7_Promotion ==
    (pc = "done" /\ Operator \in ArithmeticOps /\ result # Panic) =>
        /\ IntOperands =>
              \/ IsIntResult
              \/ result = Err(Overflow)
              \/ /\ Operator = "Divide"
                 /\ ~Divides(Right.int, Left.int)
                 /\ IsFloatResult
        /\ FloatOperand => IsFloatResult

\* C7, amended: `Int op Int` is an Int or Err(Overflow) for + - * %; for `/`
\* it is an Int when exact and a Float when inexact, and the evaluation
\* aborts on a zero divisor and on i64::MIN / -1; for `**` it is an Int or
\* Err(Overflow) when the exponent is a u32, a Float when the exponent is
\* negative and fits i32, and Err(Overflow) otherwise.  With a Float operand
\* the result is a Float, except that Float ** Int with an exponent outside
\* i32 is Err(Overflow).
C7_PromotionAmended ==
    (pc = "done" /\ Operator \in ArithmeticOps) =>
        /\ (IntOperands /\ Operator \in {"Add", "Subtract", "Multiply",
                                        "Remainder"})
              => (IsIntResult \/ result = Err(Overflow))
        /\ (IntOperands /\ Operator = "Divide") =>
              IF Right.int = 0 \/ (Left.int = I64_MIN /\ Right.int = -1)
              THEN result = Panic
              ELSE IF Divides(Right.int, Left.int) THEN IsIntResult
              ELSE IsFloatResult
        /\ (IntOperands /\ Operator = "Exp") =>
              IF 0 <= Right.int /\ Right.int <= U32_MAX
              THEN IsIntResult \/ result = Err(Overflow)
              ELSE IF I32_MIN <= Right.int /\ Right.int < 0
              THEN IsFloatResult
              ELSE result = Err(Overflow)
        /\ FloatOperand =>
              IF /\ Operator = "Exp" /\ is_int(Right)
                 /\ (Right.int < I32_MIN \/ Right.int > I32_MAX)
              THEN result = Err(Overflow)
              ELSE IsFloatResult

\* C7 happens: an Int raised to a negative Int came out as a Float.
C7_Witness ==
    /\ pc = "done" /\ Operator = "Exp" /\ IntOperands
    /\ Right.int < 0
    /\ IsFloatResult

\* r = a ** b over the integers, decided by dividing r by a, b times.
RECURSIVE IsPower(_, _, _)
IsPower(r, a, b) ==
    IF b = 0 THEN r = 1
    ELSE IF a = 0 THEN r = 0
    ELSE TruncRem(r, a) = 0 /\ IsPower(TruncDiv(r, a), a, b - 1)

\* The result is Int(n) when n fits i64 and Err(Overflow) when it does not.
IsChecked(n) ==
    IF FitsI64(n) THEN result = Ok(ValueInt(n)) ELSE result = Err(Overflow)

\* C8: integer arithmetic is checked, never wrapping: a + b, a - b, a * b and
\* a ** b with 0 <= b <= u32::MAX give Int(exact result) when it fits i64 and
\* Err(Overflow) otherwise; a ** b with b > u32::MAX gives Err(Overflow).
C8_CheckedArithmetic ==
    (pc = "done" /\ IntOperands) =>
        /\ Operator = "Add" => IsChecked(Left.int + Right.int)
        /\ Operator = "Subtract" => IsChecked(Left.int - Right.int)
        /\ Operator = "Multiply" => IsChecked(Left.int * Right.int)
        /\ (Operator = "Exp" /\ 0 <= Right.int /\ Right.int <= U32_MAX) =>
              IF \E n \in Ints : IsPower(n, Left.int, Right.int)
              THEN /\ IsIntResult
                   /\ IsPower(result.value.int, Left.int, Right.int)
              ELSE result = Err(Overflow)
        /\ (Operator = "Exp" /\ Right.int > U32_MAX) => result = Err(Overflow)

\* C8 happens: a sum or a product left i64 and was reported as Overflow
\* rather than wrapped.
C8_Witness ==
    /\ pc = "done" /\ IntOperands
    /\ \/ Operator = "Add" /\ ~FitsI64(Left.int + Right.int)
       \/ Operator = "Multiply" /\ ~FitsI64(Left.int * Right.int)
    /\ Left.int = I64_MAX
    /\ result = Err(Overflow)

\* C9: for Int a and Int b, when a is evenly divisible by b, `a / b` is Int(q)
\* with q * b == a; otherwise it is a Float, never a truncated Int quotient.
C9_ExactDivision ==
    (pc = "done" /\ Operator = "Divide" /\ IntOperands) =>
        IF Divides(Right.int, Left.int)
        THEN IsIntResult /\ result.value.int * Right.int = Left.int
        ELSE IsFloatResult

\* C10: reference texts that differ only in the letter case of the column
\* and of the sheet label parse to equal CellRef values.
C10_CaseInsensitive ==
    (pc = "done" /\ cell = Idle) =>
        \A t \in CaseVariants(text.value) : from_str(t) = parsed

\* A cell body: optional `$`, one or more letters, optional `$`, one or more
\* digits, and nothing else.
IsCellBody(b) ==
    \E sigil_col \in 0..1, letters \in 1..Len(b), sigil_row \in 0..1 :
        LET digits == sigil_col + letters + sigil_row + 1
        IN  /\ digits <= Len(b)
            /\ sigil_col = 1 => b[1] = REF_MODE_SIGIL
            /\ \A i \in (sigil_col + 1)..(sigil_col + letters) :
                  is_ascii_alphabetic(b[i])
            /\ sigil_row = 1 => b[sigil_col + letters + 1] = REF_MODE_SIGIL
            /\ \A i \in digits..Len(b) : is_ascii_digit(b[i])

\* A reference text `[<sheet>!][$]<letters>[$]<digits>`: a cell body, alone or
\* after a sheet token that holds neither `!` nor `$`.
IsRefForm(t) ==
    \/ IsCellBody(t)
    \/ \E k \in 1..Len(t) :
          /\ t[k] = SHEET_DELIMETER
          /\ \A i \in 1..(k - 1) : t[i] \notin {SHEET_DELIMETER, REF_MODE_SIGIL}
          /\ IsCellBody(SubSeq(t, k + 1, Len(t)))

\* C11: CellRef::from_str returns None for every text that is not of the form
\* `[<sheet>!][$]<letters>[$]<digits>`: an extra leading or trailing character
\* in the cell body, a second `!`, or a `$` inside the sheet token.
C11_MalformedIsNone ==
    (pc = "done" /\ cell = Idle /\ ~IsRefForm(text.value)) => parsed = None

\* The last index a two-letter label stands for: 701, `ZZ`.
LastLabelled == ALPHABET_LEN * (ALPHABET_LEN + 1) - 1

\* C12: the column codec round-trips beyond index 701: for an index
\* i >= 702, index_to_col(i) returns a label and
\* col_to_index(index_to_col(i)) == Some(i).
C12_RoundTripBeyondZZ ==
    (colLabel # Idle /\ colIdx > LastLabelled) =>
        /\ colLabel.tag = "Ok"
        /\ pc = "done" => colIndex = Some(colIdx)

\* C13: the column codec is a bijection on 0..=701: index_to_col(i) is a
\* label no other index of the range has, col_to_index of that label, in
\* upper or lower case, is Some(i), and 0, 25, 26, 51, 52, 701 are labelled
\* A, Z, AA, AZ, BA, ZZ.
C13_ColumnBijection ==
    /\ (colLabel # Idle /\ colIdx <= LastLabelled) =>
          /\ colLabel.tag = "Ok"
          /\ \A j \in (0..LastLabelled) \ {colIdx} : index_to_col(j) # colLabel
          /\ colIdx = 0 => colLabel.value = <<"A">>
          /\ colIdx = 25 => colLabel.value = <<"Z">>
          /\ colIdx = 26 => colLabel.value = <<"A", "A">>
          /\ colIdx = 51 => colLabel.value = <<"A", "Z">>
          /\ colIdx = 52 => colLabel.value = <<"B", "A">>
          /\ colIdx = 701 => colLabel.value = <<"Z", "Z">>
    /\ (pc = "done" /\ colIdx <= LastLabelled) =>
          /\ colIndex = Some(colIdx)
          /\ col_to_index(to_lowercase(colText)) = colIndex
          /\ col_to_index(colLabel.value) = colIndex

\* C13 happens: 701 was labelled and the label, spelt `zz`, decoded to 701.
C13_Witness ==
    /\ pc = "done"
    /\ colIdx = 701
    /\ colText = <<"z", "z">>
    /\ colIndex = Some(701)

\* The source is one group `( body )`: lexed without error, the first token
\* `(`, the last `)`, and no parenthesis in between.
IsGroupSource ==
    /\ lex # Idle /\ Len(lex.errors) = 0
    /\ Len(lex.tokens) >= 2
    /\ lex.tokens[1].value.kind = "ParenLeft"
    /\ lex.tokens[Len(lex.tokens)].value.kind = "ParenRight"
    /\ \A i \in 2..(Len(lex.tokens) - 1) :
          lex.tokens[i].value.kind \notin {"ParenLeft", "ParenRight"}

GroupBody == SubSeq(lex.tokens, 2, Len(lex.tokens) - 1)

\* C14: a group has an Empty inner expression exactly when `)` immediately
\* follows `(`: `()` parses to Group(Empty), `(e)` with a well-formed body
\* parses to Group(e), and a group whose body is a non-empty malformed
\* expression is a parse error, not an empty group.
C14_EmptyGroup ==
    (ast # Idle /\ IsGroupSource) =>
        LET grouped(body) ==
                /\ Len(GroupBody) = 0 =>
                      (ast.tag = "Ok" /\ ast.expr = ExprGroup(ExprEmpty))
                /\ (Len(GroupBody) > 0 /\ body.tag = "Ok") =>
                      (ast.tag = "Ok" /\ ast.expr = ExprGroup(body.expr))
                /\ (Len(GroupBody) > 0 /\ body.tag = "Err") => ast.tag = "Err"
        IN  grouped(parse(GroupBody))

\* What `-o` parses to: the literal Number("-" + d) for a number literal d,
\* Unary(Minus, o) for any other operand.
NegatedExpr(o) ==
    IF o.folded THEN LitNumber(<<"-">> \o o.text)
    ELSE ExprUnary("Minus", o.expr)

\* C15: unary-minus folding.  A prefix `-` followed by a number literal d
\* parses to the single literal Number("-" + d), with no Unary node; followed
\* by anything else (a cell reference, a group, another unary operator, a
\* string, a boolean) it parses to Unary(Minus, operand), and the operand
\* binds tighter than any binary operator that follows: `-o p r` is
\* Binary(p, -o, r).
C15_UnaryMinusFolding ==
    ast # Idle =>
        /\ \A o \in MinusOperands :
              src = Negated(o) => (ast.tag = "Ok" /\ ast.expr = NegatedExpr(o))
        /\ \A o \in MinusOperands, p \in BinaryOperators, r \in PlainOperands :
              src = NegatedLeft(o, p, r) =>
                  /\ ast.tag = "Ok"
                  /\ ast.expr = ExprBinary(p.op, NegatedExpr(o), r.expr)
        /\ \A l \in PlainOperands, p \in BinaryOperators, o \in MinusOperands :
              src = NegatedRight(l, p, o) =>
                  /\ ast.tag = "Ok"
                  /\ ast.expr = ExprBinary(p.op, l.expr, NegatedExpr(o))

\* C15 happens: in `-A1 ** 1` the `-` applies to the cell reference alone,
\* under the binary operator of the highest precedence.
C15_Witness ==
    /\ pc = "done"
    /\ src = <<"-", "A", "1", " ", "*", "*", " ", "1">>
    /\ ast.tag = "Ok"
    /\ ast.expr = ExprBinary("Exp", ExprUnary("Minus", LitCellRef(CellA1)),
                             LitNumber(<<"1">>))

\* The Context has no cell A1, or holds an error in it.
RefFails == CellA1 \notin DOMAIN ctx \/ ctx[CellA1].tag = "Err"

\* C16: a cell-reference literal is evaluated by the Context: Ok(v) is
\* returned as v, CellRefDoesNotExist as InvalidCellRef of that reference,
\* CellRefValueError(e) as e; and such an error is the result of every
\* enclosing unary, binary and group node.
C16_ContextDelegation ==
    pc = "done" =>
        /\ (ast.expr = LitCellRef(CellA1) /\ ~RefFails) => result = ctx[CellA1]
        /\ CellA1 \notin DOMAIN ctx => result = Err(InvalidCellRef(CellA1))
        /\ (CellA1 \in DOMAIN ctx /\ ctx[CellA1].tag = "Err") =>
              \E e \in StoredErrors :
                  /\ ctx[CellA1] = Err(CellRefValueError(e))
                  /\ result = Err(e)

\* C16 happens: the error stored in A1 came out of a binary node around a
\* group.
C16_Witness ==
    /\ pc = "done"
    /\ ast.expr = ExprBinary("Add", LitCellRef(CellB1),
                             ExprGroup(LitCellRef(CellA1)))
    /\ ctx[CellA1] = Err(CellRefValueError(Div0))
    /\ result = Err(Div0)

\* C17: for each arithmetic operator (+, -, *, /, %, **), when both operands
\* evaluate and at least one of them is not an Int or a Float (a String, a
\* Bool, Empty, a DateTime or a Duration), the result is
\* Err(InvalidOperation(..)), never a value.
C17_NonNumericOperand ==
    (/\ pc = "done"
     /\ Operator \in ArithmeticOps
     /\ ~(is_number(Left) /\ is_number(Right))) =>
        /\ result.tag = "Err"
        /\ result.error.kind = "InvalidOperation"

\* C17 happens: a String raised to an Int is an InvalidOperation.
C17_Witness ==
    /\ pc = "done"
    /\ Operator = "Exp"
    /\ Left.tag = "String" /\ is_int(Right)
    /\ result = Err(InvalidOperation("can only exponentiate numbers"))

\* C18: parse accepts a token stream only if it consumes all of it: when
\* tokens remain after a complete expression (a stray `)` after a literal,
\* and anything behind it), the outcome is an error, not Ok.
C18_ConsumesAllTokens ==
    (ast # Idle /\ ast.tag = "Ok") => ast.cursor = Len(lex.tokens)

\* The index of the first character of s at or after i that does not satisfy
\* P (Len(s) + 1 when there is none).
RunEnd(s, i, P(_)) ==
    CHOOSE j \in i..(Len(s) + 1) :
        /\ \A k \in i..(j - 1) : P(s[k])
        /\ j = Len(s) + 1 \/ ~P(s[j])

\* The offset of the first character at or after offset p that is not
\* whitespace (Len(src) when there is none).
NextStart(p) == RunEnd(src, p + 1, is_whitespace) - 1

\* The offset behind the run a token or a lexical error stands for, from the
\* offset `at` of its first character.
ReferenceEnd(at) ==
    IF src[at + 1] = REF_MODE_SIGIL
    THEN RunEnd(src, at + 2, is_valid_cell_ref_char) - 1
    ELSE RunEnd(src, at + 1, is_valid_ident_or_cell_ref_char) - 1
TokenEnd(token, at) ==
    CASE token.kind = "String" -> at + Len(token.value) + 2
      [] token.kind = "Number" -> at + Len(token.value)
      [] token.kind \in {"CellRef", "Keyword", "Identifier"} -> ReferenceEnd(at)
      [] token.kind \in {"StarStar", "BangEqual", "LessEqual", "GreaterEqual",
                         "EqualEqual"} -> at + 2
      [] OTHER -> at + 1
ErrorEnd(kind, at) ==
    CASE kind = "UnterminatedString" -> Len(src)
      [] kind \in {"RadixTerminator", "MultipleRadixPoints"} ->
            RunEnd(src, at + 1, is_number_char) - 1
      [] kind = "InvalidCellRef" -> ReferenceEnd(at)

\* The runs the scan reported: where each starts and the offset behind it.
TokenRuns ==
    {[start |-> lex.tokens[i].span.start,
      end |-> TokenEnd(lex.tokens[i].value, lex.tokens[i].span.start)] :
        i \in 1..Len(lex.tokens)}
ErrorRuns ==
    {[start |-> lex.errors[i].span.start,
      end |-> ErrorEnd(lex.errors[i].value, lex.errors[i].span.start)] :
        i \in 1..Len(lex.errors)}
ScanRuns == TokenRuns \cup ErrorRuns

\* The run that starts at offset `at` is well formed: a closed string, a
\* number with at most one radix point and a digit behind it, a `$` run that
\* is a cell reference, or any other run.
IsWellFormedRun(at) ==
    LET ch == src[at + 1]
        number == SubSeq(src, at + 1, RunEnd(src, at + 1, is_number_char) - 1)
    IN  CASE ch \in {"'", "\""} -> \E k \in (at + 2)..Len(src) : src[k] = ch
          [] is_ascii_digit(ch) ->
                number[Len(number)] # "." /\ CountRadix(number) <= 1
          [] ch = REF_MODE_SIGIL ->
                from_str(SubSeq(src, at + 1, ReferenceEnd(at))).tag = "Some"
          [] OTHER -> TRUE

InSourceOrder(items) ==
    \A i, j \in 1..Len(items) : i < j => items[i].span.start < items[j].span.start

\* C19: a lexical error does not stop the scan.  tokenize always runs to the
\* end of the input; the runs it reports, tokens and errors together, follow
\* one another from the first character that is not whitespace to the end of
\* the input, each starting at the first unconsumed character behind the one
\* before; a malformed run is one entry of `errors`, a well-formed run one
\* entry of `tokens`, and each list is in source order.
C19_ScanContinues ==
    lex # Idle =>
        /\ lex.tag = "Lex"
        /\ InSourceOrder(lex.tokens) /\ InSourceOrder(lex.errors)
        /\ Cardinality({r.start : r \in ScanRuns})
              = Len(lex.tokens) + Len(lex.errors)
        /\ NextStart(0) = Len(src) => ScanRuns = {}
        /\ \A r \in ScanRuns :
              /\ r.end <= Len(src)
              /\ \/ r.start = NextStart(0)
                 \/ \E q \in ScanRuns :
                       q.start < r.start /\ NextStart(q.end) = r.start
              /\ \/ NextStart(r.end) = Len(src)
                 \/ \E q \in ScanRuns : q.start = NextStart(r.end)
        /\ \A r \in TokenRuns : IsWellFormedRun(r.start)
        /\ \A r \in ErrorRuns : ~IsWellFormedRun(r.start)

\* The token of a binary operator.
OperatorToken(p) ==
    Token(CHOOSE kind \in BinaryTokens : op_binary_from_token(kind) = Some(p.op))

TokenValues(tokens) == [i \in 1..Len(tokens) |-> tokens[i].value]

\* C20: the tokens of an operator do not depend on optional whitespace: for
\* cell references or identifiers x and y and any binary operator op, `x op y`
\* and `xopy` both lex, without error, to the token values x, op, y;
\* `A1!=B1` lexes as CellRef(A1), BangEqual, CellRef(B1).
C20_SpacingIndependent ==
    lex # Idle =>
        \A x \in NamedOperands, p \in BinaryOperators, y \in NamedOperands,
           sep \in {<<>>, <<" ">>} :
            src = Around(x, p, y, sep) =>
                /\ lex.tag = "Lex"
                /\ Len(lex.errors) = 0
                /\ TokenValues(lex.tokens) = <<x.token, OperatorToken(p), y.token>>

(***************************************************************************)
(* Totality of CellRef::from_str and of the scan                           *)
(***************************************************************************)
\* C21: CellRef::from_str returns Some or None for every text, row digits
\* above u16::MAX included, and tokenize returns a Lex for every source.
C21_FromStrTotal ==
    lex # Idle =>
        /\ from_str(src).tag \in {"Some", "None"}
        /\ lex.tag = "Lex"

\* The offset of the first `$` of the source.
SigilAt == RunEnd(src, 1, LAMBDA ch : ch # REF_MODE_SIGIL) - 1

\* The first `$` begins a run: it is not inside a word.
SigilBeginsRun ==
    /\ SigilAt < Len(src)
    /\ SigilAt > 0 => ~is_valid_ident_or_cell_ref_char(src[SigilAt])

\* C22: a run that begins with `$` is a reference with an absolute leading
\* axis: it yields either one CellRef token whose col_mode is Absolute or one
\* InvalidCellRef error, and nothing else.
C22_SigilAbsolute ==
    (lex # Idle /\ SigilBeginsRun) =>
        /\ lex.tag = "Lex"
        /\ \A i \in 1..Len(lex.tokens) :
              lex.tokens[i].span.start = SigilAt =>
                  /\ lex.tokens[i].value.kind = "CellRef"
                  /\ lex.tokens[i].value.cell.col_mode = Absolute
        /\ \A i \in 1..Len(lex.errors) :
              lex.errors[i].span.start = SigilAt =>
                  lex.errors[i].value = "InvalidCellRef"
        /\ Cardinality({i \in 1..Len(lex.tokens) :
                            lex.tokens[i].span.start = SigilAt})
              + Cardinality({i \in 1..Len(lex.errors) :
                                lex.errors[i].span.start = SigilAt}) = 1

\* The offset of the first quote of the source, and whether the string it
\* opens is closed.
IsQuote(ch) == ch \in {"'", "\""}
QuoteAt == RunEnd(src, 1, LAMBDA ch : ~IsQuote(ch)) - 1
IsClosed(at) == \E k \in (at + 2)..Len(src) : src[k] = src[at + 1]
UnterminatedErrors ==
    {i \in 1..Len(lex.errors) : lex.errors[i].value = "UnterminatedString"}

\* C23: a string opened at offset s and never closed, in a source of n
\* characters, is reported as exactly one UnterminatedString error, with the
\* span (s, n), whatever tokens precede the string.
C23_UnterminatedSpan ==
    (lex # Idle /\ QuoteAt < Len(src) /\ ~IsClosed(QuoteAt)) =>
        /\ lex.tag = "Lex"
        /\ Cardinality(UnterminatedErrors) = 1
        /\ \A i \in UnterminatedErrors :
              lex.errors[i].span = Span(QuoteAt, Len(src))

\* The spellings of the keywords.
KeywordSpellings ==
    {[text |-> <<"t", "r", "u", "e">>, word |-> "True"],
     [text |-> <<"f", "a", "l", "s", "e">>, word |-> "False"],
     [text |-> <<"a", "n", "d">>, word |-> "And"],
     [text |-> <<"o", "r">>, word |-> "Or"],
     [text |-> <<"s", "u", "m">>, word |-> "Sum"]}

\* What a run that starts with a letter stands for: a reference first, then
\* a keyword, then an identifier.
Classified(run) ==
    IF from_str(run).tag = "Some" THEN TokenCellRef(from_str(run).value)
    ELSE IF \E k \in KeywordSpellings : k.text = to_lowercase(run)
    THEN TokenKeyword(
             (CHOOSE k \in KeywordSpellings : k.text = to_lowercase(run)).word)
    ELSE TokenIdentifier(run)

\* C25: a maximal run that starts with a letter is classified in the order
\* reference, keyword, identifier: it yields exactly one token, and no error;
\* the token is a CellRef when CellRef::from_str accepts the run, else a
\* Keyword when the lower-cased run is a keyword spelling, else an Identifier
\* that carries the run as written.
C25_ClassificationOrder ==
    lex # Idle =>
        \A before \in WordBefores, run \in WordRuns, behind \in WordBehinds :
            src = before \o run \o behind =>
                /\ lex.tag = "Lex"
                /\ \E i \in 1..Len(lex.tokens) :
                      /\ lex.tokens[i].span.start = Len(before)
                      /\ lex.tokens[i].value = Classified(run)
                /\ \A i \in 1..Len(lex.errors) :
                      lex.errors[i].span.start # Len(before)

\* The number of source characters of the token whose first character is at
\* offset `at`.
TokenLength(token, at) == TokenEnd(token, at) - at

\* C24: every token span is a half-open range over the source whose length
\* is the number of source characters of the token, for every kind of token,
\* and the spans of successive tokens increase without overlapping.
C24_SpanLengths ==
    (lex # Idle /\ lex.tag = "Lex") =>
        /\ \A i \in 1..Len(lex.tokens) :
              /\ lex.tokens[i].span.end <= Len(src)
              /\ lex.tokens[i].span.end - lex.tokens[i].span.start
                    = TokenLength(lex.tokens[i].value, lex.tokens[i].span.start)
        /\ \A i \in 1..(Len(lex.tokens) - 1) :
              lex.tokens[i].span.end <= lex.tokens[i + 1].span.start

\* C26: equality and ordering agree.  Whenever `a == b` is Bool(true), that
\* is value_eq(a, b) = Some(true), `a <= b` and `a >= b` are Bool(true) and
\* `a < b`, `a > b` (and `a != b`) are Bool(false).
C26_EqualityAgreesWithOrdering ==
    (pc = "done" /\ Operator \in ComparisonOps
        /\ value_eq(Left, Right) = Some(TRUE)) =>
        result = Ok(ValueBool(Operator \in {"Equal", "LessEqual",
                                            "GreaterEqual"}))

\* C27: unary minus on an Int never aborts and never wraps: `-A1` with A1 =
\* Int(n) is Int(-n) when -n fits i64, and Err(Overflow) for n = i64::MIN.
C27_CheckedNegation ==
    (pc = "done" /\ ast.expr = ExprUnary("Minus", LitCellRef(CellA1))
        /\ is_int(ctx[CellA1].value)) =>
        result = IF FitsI64(-ctx[CellA1].value.int)
                 THEN Ok(ValueInt(-ctx[CellA1].value.int))
                 ELSE Err(Overflow)

(***************************************************************************)
(* DirectoryTree                                                           *)
(***************************************************************************)
Nodes(t) == 0..(Len(t.directories) - 1)

\* Node `a` is node `i` or one of its ancestors, within `fuel` steps.
RECURSIVE IsAncestorOrSelf(_, _, _, _)
IsAncestorOrSelf(t, a, i, fuel) ==
    \/ i = a
    \/ /\ i # ROOT
       /\ fuel > 0
       /\ IsAncestorOrSelf(t, a, t.parents[i], fuel - 1)

\* The nodes of the subtree of `root`, by the parent relation.
Subtree(t, root) ==
    {i \in Nodes(t) : IsAncestorOrSelf(t, root, i, Len(t.directories))}

NameOf(t, i) == t.directories[i + 1]
NamesOf(t, nodes) == {NameOf(t, i) : i \in nodes}

\* The name of the parent of the directory called `name`, which is not the
\* root of t.
ParentName(t, name) ==
    NameOf(t, t.parents[CHOOSE i \in Nodes(t) : NameOf(t, i) = name])

\* Tree `t` holds exactly the directories `names`, once each, and every
\* directory in it but `top` has the parent it has in `before`.
KeepsParents(t, names, top, before) ==
    /\ Len(t.directories) = Cardinality(names)
    /\ Range(t.directories) = names
    /\ NameOf(t, ROOT) = top
    /\ Len(t.parents) = Len(t.directories) - 1
    /\ \A i \in Nodes(t) \ {ROOT} :
          /\ t.parents[i] < Len(t.directories)
          /\ NameOf(t, t.parents[i]) = ParentName(before, NameOf(t, i))

\* C28: remove(root) with a valid index other than ROOT returns the subtree
\* of root, with root at index 0 and every other directory under the parent
\* it had, and leaves in self the other directories, under the parents they
\* had.
C28_RemoveReturnsSubtree ==
    (call # Idle /\ call.op = "remove"
        /\ call.root \in Nodes(call.before) \ {ROOT}) =>
        /\ call.out.tag = "Ok"
        /\ KeepsParents(call.out.value,
                        NamesOf(call.before, Subtree(call.before, call.root)),
                        NameOf(call.before, call.root), call.before)
        /\ KeepsParents(tree,
                        Range(call.before.directories)
                            \ NamesOf(call.before,
                                      Subtree(call.before, call.root)),
                        NameOf(call.before, ROOT), call.before)

\* Every node of t reaches ROOT by following parents.
RECURSIVE ReachesRoot(_, _, _)
ReachesRoot(t, i, fuel) ==
    \/ i = ROOT
    \/ fuel > 0 /\ ReachesRoot(t, t.parents[i], fuel - 1)

WellFormed(t) ==
    /\ Len(t.parents) = Len(t.directories) - 1
    /\ \A k \in 1..Len(t.parents) : t.parents[k] < Len(t.directories)
    /\ \A i \in Nodes(t) : ReachesRoot(t, i, Len(t.directories))

\* The calls that must fail: insert under a parent that does not exist,
\* remove of ROOT or of an index that does not exist, shift with an index
\* that does not exist or of a node under itself or one of its descendants.
MustFail(c) ==
    CASE c.op = "insert" -> c.parent \notin Nodes(c.before)
      [] c.op = "remove" -> c.root \notin Nodes(c.before) \ {ROOT}
      [] c.op = "shift" ->
            \/ c.root \notin Nodes(c.before)
            \/ c.parent \notin Nodes(c.before)
            \/ c.parent \in Subtree(c.before, c.root)

\* C29: the tree the calls are made on stays well formed through every
\* sequence of insert, shift and remove: one parent per directory but the
\* root, every parent an index of the tree, every node under ROOT.  Exactly
\* the calls that must fail return an error, and those leave the tree as it
\* was.
C29_TreeWellFormed ==
    /\ WellFormed(tree)
    /\ call # Idle =>
          /\ call.out.tag = (IF MustFail(call) THEN "Err" ELSE "Ok")
          /\ call.out.tag = "Err" => tree = call.before

\* C29 happens: a tree whose indices were reordered by a remove refuses to
\* shift a directory under its own child.
C29_Witness ==
    /\ call # Idle
    /\ call.op = "shift"
    /\ call.out = Err("CanNotShiftToDescendant")
    /\ call.root # call.parent
    /\ \E i \in Nodes(tree) \ {ROOT} : tree.parents[i] > i
    /\ tree = call.before

(***************************************************************************)
(* Spreadsheet sizes                                                       *)
(***************************************************************************)
Max(S) == CHOOSE m \in S : \A n \in S : n <= m

\* C30: the size_fixed of the desktop Spreadsheet built on a non-empty map
\* of fixed cells is (greatest row + 1, greatest col + 1), so every cell lies
\* inside it, and it is the size the library's from_cells computed for the
\* same cells.
C30_SizeFixedIsBoundingRectangle ==
    (sizes # Idle /\ sizes.size_fixed # Idle /\ cells # {}) =>
        /\ sizes.size_fixed = Ok(<<Max({c.row : c \in cells}) + 1,
                                   Max({c.col : c \in cells}) + 1>>)
        /\ \A c \in cells : /\ c.row < sizes.size_fixed.value[1]
                            /\ c.col < sizes.size_fixed.value[2]
        /\ sizes.size_fixed = sizes.size

====
